---- MODULE Spec2Model ----
(***************************************************************************)
(* GitHub -> Jira issue importers (scripts/bug_postgres.py,                *)
(* scripts/demand_postgres.py, scripts/bulk_import.py) together with the   *)
(* clients of config/connections.py they drive.                            *)
(*                                                                         *)
(* One behaviour is a sequence of non-overlapping runs of main() of one    *)
(* importer variant against a source tracker and a target system that     *)
(* keep their content between the runs.  A run may be stopped anywhere.    *)
(* Strings are modelled as sequences of words: a Jira text match           *)
(* (summary ~ "x") is the occurrence of the word x in the summary.         *)
(***************************************************************************)
EXTENDS Integers, Sequences, FiniteSets, TLC

VARIABLES
  variant,              \* which script is deployed: "bug", "demand" or "bulk"
  run,                  \* number of runs of main() started so far
  pc,                   \* position of main(): "idle", "main", "import", "done", "stopped"
  oi,                   \* index into env_vars.github_orgs (outer loop of main)
  ri,                   \* index into repositories (inner loop of main)
  ii,                   \* index into issues (loop of import_to_jira)
  issues,               \* the list returned by get_issues for the current pair
  successful_imports,   \* local counters of import_to_jira
  failed_imports,
  skipped_imports,
  total_successful,     \* counters of main
  total_failed,
  total_skipped,
  gh_labels,            \* labels added to source records: set of <<org, repo, number, label>>
  gh_comments,          \* source records that received the provenance comment
  jira,                 \* target records in creation order
  last,                 \* what the most recent step of the run did
  visited,              \* (org, repo) pairs whose listing was requested in this run
  fn_repo,              \* argument repo_name of get_master_component_for_repo
  fn_mapping,           \* argument repo_component_mapping
  fn_result,            \* what the three variants of the function returned
  rt_call,              \* the client call whose request goes through the session
  rt_total,             \* Retry.total: retries the adapter may still spend
  rt_attempts,          \* outcomes of the attempts sent so far, in order
  rt_result,            \* what the call handed to its caller ("pending" before)
  rate_limit_remaining, \* GitHubClient.rate_limit_remaining (None before a response)
  rate_limit_reset,     \* GitHubClient.rate_limit_reset
  now,                  \* time.time(), in seconds
  gh_call,              \* the most recent GitHubClient call: what it saw and did
  gh_calls,             \* number of GitHubClient calls made
  pg_repo,              \* number of open records of the repository that is listed
  per_page,             \* argument per_page of get_all_issues_paginated
  page,                 \* local variable page
  all_issues,           \* local variable all_issues
  pg_pc,                \* "loop", "returned" or "raised"
  pg_requested,         \* the (page, per_page) parameters requested, in order
  pool,                 \* Database._pool: "none", "open" or "closed"
  pool_used,            \* connections checked out of the pool
  db_pc,                \* position of main(): "start", "returned", "raised", "loops", "exited"
  db_last,              \* the most recent database step and how it ended
  loc_org,              \* argument org_name of the affected-locations resolvers
  loc_directory,        \* what the metadata repository serves
  loc_result,           \* what every resolver returned
  lbl_issue,            \* argument issue of is_issue_already_imported
  lbl_result,           \* what is_issue_already_imported returned
  imp_body,             \* the text of the body of the record import_to_jira is given
  ps_body,              \* argument issue_body of parse_github_issue_body
  ps_result,            \* what the parsers of the bug and the demand importer returned
  img_parts,            \* the pieces the argument text of convert_github_images_to_jira is made of
  img_out,              \* the results of applying the function once, twice, ...
  dr_fields,            \* what the draft of a record is built from (template fields, footer)
  dr_result,            \* the description and the test category of the draft
  environ,              \* os.environ: the names of the variables that are set
  env_pc,               \* position of the script: "start", "raised", "constructed", ...
  env_error,            \* the variable named by the exception of check_env_variables
  env_io,               \* database queries and HTTP requests made so far, in order
  cc_pc,                \* position of each of the concurrent runs on the shared record
  cc_listed,            \* whether the record listed to a run carried the marker label
  cc_marked,            \* whether the source record carries the marker label now
  cc_jira,              \* target records of the source record, in creation order
  cc_log                \* requests the runs have sent, in the order the systems got them

pipeline_vars == <<variant, run, pc, oi, ri, ii, issues, successful_imports,
                   failed_imports, skipped_imports, total_successful,
                   total_failed, total_skipped, gh_labels, gh_comments, jira,
                   last, visited>>
fn_vars == <<fn_repo, fn_mapping, fn_result>>
retry_vars == <<rt_call, rt_total, rt_attempts, rt_result>>
rate_vars == <<rate_limit_remaining, rate_limit_reset, now, gh_call, gh_calls>>
page_vars == <<pg_repo, per_page, page, all_issues, pg_pc, pg_requested>>
pool_vars == <<pool, pool_used, db_pc, db_last>>
loc_vars == <<loc_org, loc_directory, loc_result>>
lbl_vars == <<lbl_issue, lbl_result>>
unit_vars == <<retry_vars, rate_vars, page_vars, pool_vars, loc_vars, lbl_vars>>
import_vars == <<imp_body>>
parse_vars == <<ps_body, ps_result>>
image_vars == <<img_parts, img_out>>
draft_vars == <<dr_fields, dr_result>>
env_vars == <<environ, env_pc, env_error, env_io>>
race_vars == <<cc_pc, cc_listed, cc_marked, cc_jira, cc_log>>
stage_vars == <<import_vars, parse_vars, image_vars, draft_vars, env_vars, race_vars>>
vars == <<pipeline_vars, fn_vars, unit_vars, stage_vars>>

(***************************************************************************)
(* Bounds                                                                  *)
(***************************************************************************)
MaxRuns == 2

\* GitHubClient calls made one after the other, and seconds that pass between them
MaxCalls == 3
MaxTime == 3

\* open records of the listed repository, and the page size asked for
MaxRecords == 4
MaxPerPage == 2

\* entries of the metadata directory
MaxFiles == 2

\* lines of the body of the record import_to_jira is given
MaxBody == 2

\* lines of the body parse_github_issue_body is given
MaxLines == 4

\* pieces of the text convert_github_images_to_jira is given, and the number of
\* times the function is applied to its own result
MaxParts == 3
MaxApplications == 2

\* required environment variables that are unset when a script starts
MaxMissing == 2

\* runs of a batch driver that are under way at the same time
MaxProcesses == 2

\* comments on a source record
MaxComments == 2

(***************************************************************************)
(* Configuration                                                           *)
(***************************************************************************)
Variants == {"bug", "demand", "bulk"}

\* env_vars.github_orgs, in configured order
github_orgs == <<"o1", "o2">>

\* repositories returned by the Repository Directory, ORDER BY squad, repository
repositories == <<"r1", "r2">>

\* REPO_TO_MASTER_COMPONENT in declaration order; r2 has no entry
REPO_TO_MASTER_COMPONENT == << [repo |-> "r0", key |-> "c0"],
                               [repo |-> "r1", key |-> "c1"] >>

IMPORTED_LABEL == "imported-to-jira"
IMPORTED_LABELS == {"imported-to-jira", "bulk"}

PROJECT_KEY(v) == IF v = "demand" THEN "OTCPR" ELSE "BM"

\* the labels the deployed variant passes to add_label_to_issue
MarkerLabels(v) == IF v = "bulk" THEN IMPORTED_LABELS ELSE {IMPORTED_LABEL}

(***************************************************************************)
(* The source tracker: the open records of every (org, repo) pair in the   *)
(* order the listing returns them.  A record is what the GitHub API        *)
(* returns: number, the pull_request key, label names, title (the key may  *)
(* be absent), the section headers of the body and its comments.           *)
(***************************************************************************)
NumTok(n) == "#" \o ToString(n)

KindLabel(v) == IF v = "demand" THEN "demand" ELSE "bug"
KindLabelCased(v) == IF v = "demand" THEN "Demand" ELSE "Bug"
KindPrefix(v) == IF v = "demand" THEN "[demand]" ELSE "[Bug]"
TemplateHeader(v) == IF v = "demand" THEN "### Summary" ELSE "### Description"

Rec(n, pr, labels, titled, title, body, comments) ==
  [number |-> n, pull_request |-> pr, labels |-> labels, titled |-> titled,
   title |-> title, body |-> body, comments |-> comments]

Tracker(v, org, repo) ==
  IF org = "o1" /\ repo = "r1" THEN
    << Rec(4, TRUE, {KindLabel(v)}, TRUE, <<KindPrefix(v), "fix">>, {TemplateHeader(v)}, 0),
       Rec(3, FALSE, {"question"}, TRUE, <<"how", "to">>, {TemplateHeader(v)}, 0),
       Rec(2, FALSE, {}, TRUE, <<KindPrefix(v), "typo">>, {TemplateHeader(v)}, 1),
       Rec(1, FALSE, {}, FALSE, <<>>, {TemplateHeader(v), "### Additional Context"}, 0) >>
  ELSE IF org = "o1" /\ repo = "r2" THEN
    << Rec(2, TRUE, {IMPORTED_LABEL}, FALSE, << >>, {}, 0),
       Rec(1, FALSE, IF v = "bulk" THEN {} ELSE {KindLabelCased(v)}, TRUE, <<"broken", "link">>,
           {TemplateHeader(v)}, 0) >>
  ELSE IF org = "o2" /\ repo = "r1" THEN
    << Rec(3, TRUE, {}, TRUE, <<"update", "docs">>, {}, 0),
       Rec(2, FALSE, {KindLabel(v), IMPORTED_LABEL}, TRUE, <<KindPrefix(v), "done">>,
           {TemplateHeader(v)}, 0),
       Rec(1, FALSE, {}, TRUE, <<KindPrefix(v), "plain">>, {"### Notes"}, 0) >>
  ELSE << >>

\* the listing of a pair as the API returns it now: the labels added since are on it
Listing(v, org, repo, added) ==
  LET t == Tracker(v, org, repo) IN
  [i \in 1..Len(t) |->
     [t[i] EXCEPT !.labels = @ \cup {l \in IMPORTED_LABELS :
                                       <<org, repo, t[i].number, l>> \in added}]]

(***************************************************************************)
(* str.upper() and str.lower() on the words that occur in labels and at    *)
(* the start of titles                                                     *)
(***************************************************************************)
upper(w) ==
  CASE w \in {"[Bug]", "[bug]", "[BUG]"} -> "[BUG]"
    [] w \in {"[demand]", "[Demand]", "[DEMAND]"} -> "[DEMAND]"
    [] w = "how" -> "HOW"
    [] w = "broken" -> "BROKEN"
    [] w = "update" -> "UPDATE"
    [] OTHER -> w

lower(w) ==
  CASE w \in {"Bug", "BUG", "bug"} -> "bug"
    [] w \in {"Demand", "DEMAND", "demand"} -> "demand"
    [] OTHER -> w

\* title.startswith(p) for a one-word prefix p
startswith(title, p) == Len(title) > 0 /\ title[1] = p

(***************************************************************************)
(* Classification, duplicate detection, template gate                      *)
(***************************************************************************)
\* mutant: the label names are compared as they are written
is_bug_issue_exact(issue) ==
  \/ "bug" \in issue.labels
  \/ startswith([i \in 1..Len(issue.title) |-> upper(issue.title[i])], "[BUG]")

is_bug_issue(issue) ==
  \/ "bug" \in {lower(l) : l \in issue.labels}
  \/ startswith([i \in 1..Len(issue.title) |-> upper(issue.title[i])], "[BUG]")

is_demand_issue(issue) ==
  \/ "demand" \in {lower(l) : l \in issue.labels}
  \/ startswith([i \in 1..Len(issue.title) |-> upper(issue.title[i])], "[DEMAND]")

\* mutant: the bulk importer takes every record
has_no_labels_any(issue) == TRUE

has_no_labels(issue) == Cardinality(issue.labels) = 0

\* step 2 of the loop body of the deployed variant
InScope(v, issue) ==
  CASE v = "bug" -> is_bug_issue(issue)
    [] v = "demand" -> is_demand_issue(issue)
    [] v = "bulk" -> has_no_labels(issue)

\* mutant: bulk asks for every marker label
is_issue_already_imported_all(v, issue) ==
  IF v = "bulk" THEN \A l \in IMPORTED_LABELS : l \in issue.labels
                ELSE IMPORTED_LABEL \in issue.labels

is_issue_already_imported(v, issue) ==
  IF v = "bulk" THEN \E l \in IMPORTED_LABELS : l \in issue.labels
                ELSE IMPORTED_LABEL \in issue.labels

\* the section headers each parser recognizes
RecognizedHeaders(v) ==
  IF v = "demand"
    THEN {"### Summary", "### Feature Description", "### Documents Requested",
          "### Additional Context"}
    ELSE {"### User's Impact", "### Document URL", "### Description",
          "### Additional Context"}

\* the keys of the mapping parse_github_issue_body returns
parse_github_issue_body(v, body) == body \cap RecognizedHeaders(v)

\* mutant: a record without template sections goes on to the draft
TemplateGate_open(v, issue) == FALSE

\* the bulk importer has no template gate
TemplateGate(v, issue) ==
  v # "bulk" /\ parse_github_issue_body(v, issue.body) = {}

Contains(text, word) == \E i \in 1..Len(text) : text[i] = word

\* f"[{repo_name}] {issue.get('title', f'GitHub Issue #{issue_number}')}"
Summary(repo_name, issue) ==
  <<repo_name>> \o (IF issue.titled THEN issue.title
                    ELSE <<"GitHub", "Issue", NumTok(issue.number)>>)

\* the search the JQL of check_issue_exists asks for, answered from the target
search_issues(target, github_issue_number, project_key, repo_name) ==
  {k \in 1..Len(target) :
     /\ target[k].project = project_key
     /\ Contains(target[k].summary, NumTok(github_issue_number))
     /\ Contains(target[k].summary, repo_name)}

\* mutant: a search that failed counts as a match
check_issue_exists_closed(target, answer, github_issue_number, project_key, repo_name) ==
  \/ answer = "non200"
  \/ Cardinality(search_issues(target, github_issue_number, project_key, repo_name)) > 0

\* mutant: the search never finds a record
check_issue_exists_blind(target, answer, github_issue_number, project_key, repo_name) ==
  FALSE

\* answer is "ok" (200) or "non200" (search_issues returns None)
check_issue_exists(target, answer, github_issue_number, project_key, repo_name) ==
  IF answer = "ok"
    THEN Cardinality(search_issues(target, github_issue_number, project_key, repo_name)) > 0
    ELSE FALSE

(***************************************************************************)
(* Component resolution.  A mapping is a function from repository names to *)
(* component keys; "" is a key that is unset (falsy).  The result says     *)
(* whether the call raised and, if not, the key returned.                  *)
(***************************************************************************)
Returned(key) == [raised |-> FALSE, key |-> key]
Raised(what) == [raised |-> TRUE, key |-> what]

\* dict.get(repo_name) followed by "if not component_key"
Lookup(mapping, repo_name) ==
  IF repo_name \in DOMAIN mapping THEN mapping[repo_name] ELSE ""

\* REPO_TO_MASTER_COMPONENT as the dict it is
ComponentTable ==
  [r \in {REPO_TO_MASTER_COMPONENT[i].repo : i \in 1..Len(REPO_TO_MASTER_COMPONENT)} |->
     (CHOOSE e \in {REPO_TO_MASTER_COMPONENT[i] : i \in 1..Len(REPO_TO_MASTER_COMPONENT)} :
        e.repo = r).key]

\* repo_component_mapping as get_repositories_from_db builds it
repo_component_mapping ==
  [r \in {repositories[i] : i \in 1..Len(repositories)} \cap DOMAIN ComponentTable |->
     ComponentTable[r]]

get_master_component_for_repo_bug(repo_name, mapping) ==
  IF Lookup(mapping, repo_name) = ""
    THEN Raised("ValueError")
    ELSE Returned(Lookup(mapping, repo_name))

\* mutant: the demand importer raises like the bug importer
get_master_component_for_repo_demand_raises(repo_name, mapping) ==
  IF Lookup(mapping, repo_name) = ""
    THEN Raised("ValueError")
    ELSE Returned(Lookup(mapping, repo_name))

get_master_component_for_repo_demand(repo_name, mapping) ==
  IF Lookup(mapping, repo_name) = ""
    THEN Returned(REPO_TO_MASTER_COMPONENT[1].key)
    ELSE Returned(Lookup(mapping, repo_name))

get_master_component_for_repo_bulk(repo_name) ==
  IF Lookup(ComponentTable, repo_name) = ""
    THEN Raised("ValueError")
    ELSE Returned(Lookup(ComponentTable, repo_name))

\* step 6 of the loop body of the deployed variant
MasterComponent(v, repo_name) ==
  CASE v = "bug" -> get_master_component_for_repo_bug(repo_name, repo_component_mapping)
    [] v = "demand" -> get_master_component_for_repo_demand(repo_name, repo_component_mapping)
    [] v = "bulk" -> get_master_component_for_repo_bulk(repo_name)

(***************************************************************************)
(* Affected locations.  The metadata repository answers with a list of     *)
(* locations or with nothing (None, or an empty list).                     *)
(***************************************************************************)
GiteaAnswers == {<< >>, <<"loc-gitea">>}

FALLBACK_AFFECTED_LOCATIONS == [o \in {"o1"} |-> <<"loc-o1-a", "loc-o1-b">>]

\* bug_postgres.py and bulk_import.py: Gitea, then the table, then the default
\* mutant: the built-in per-organization table is passed over
get_affected_locations_for_org_fallback_no_table(org, answer) ==
  IF answer # << >> THEN answer ELSE <<"loc-default">>

get_affected_locations_for_org_fallback(org, answer) ==
  IF answer # << >> THEN answer
  ELSE IF org \in DOMAIN FALLBACK_AFFECTED_LOCATIONS THEN FALLBACK_AFFECTED_LOCATIONS[org]
  ELSE <<"loc-default">>

\* mutant: the strict resolver hands on whatever Gitea gave
get_affected_locations_for_org_strict_lenient(org, answer) ==
  [raised |-> FALSE, value |-> answer]

\* demand_postgres.py: no fallback, RuntimeError when Gitea gives nothing
get_affected_locations_for_org_strict(org, answer) ==
  IF answer = << >> THEN [raised |-> TRUE, value |-> << >>]
                    ELSE [raised |-> FALSE, value |-> answer]

\* step 7 of the loop body of the deployed variant
AffectedLocations(v, org, answer) ==
  IF v = "demand"
    THEN get_affected_locations_for_org_strict(org, answer)
    ELSE [raised |-> FALSE, value |-> get_affected_locations_for_org_fallback(org, answer)]

(***************************************************************************)
(* One iteration of the loop of import_to_jira / bulk_import_to_jira.      *)
(* The iteration is the sequence of requests it sends, each with the       *)
(* answer it got, and the way it ends:                                     *)
(*   "pr"       continue without counting                                  *)
(*   "skipped"  skipped_imports += 1                                       *)
(*   "failed"   failed_imports += 1                                        *)
(*   "created"  successful_imports += 1                                    *)
(*   "raised"   an exception leaves import_to_jira                         *)
(* A request answered "raise" is one whose session call raised (connection *)
(* failure, retries exhausted).                                            *)
(***************************************************************************)
Request(op, res) ==
  [op |-> op, res |-> res, summary |-> << >>, component |-> "", labels |-> {},
   locations |-> << >>, arg |-> 0]

Outcome(eff, out, why) == [eff |-> eff, out |-> out, why |-> why]

SearchAnswers == {"ok", "non200", "raise"}
CreateAnswers == {"created", "rejected", "raise"}
WriteAnswers == {"ok", "rejected", "raise"}

\* github_client.add_label_to_issue(org, repo, number, labels)
add_label_to_issue(v, answer) ==
  [Request("label", answer) EXCEPT !.labels = MarkerLabels(v)]

\* jira_client.create_issue(issue_data)
create_issue(repo_name, issue, component, locations, answer) ==
  [Request("create", answer) EXCEPT !.summary = Summary(repo_name, issue),
                                    !.component = component,
                                    !.locations = locations]

\* sync_comments_to_jira: the comments are fetched (a failed fetch gives none),
\* then one add_comment per comment, each of which may fail
sync_comments_to_jira(issue) ==
  {<<Request("get_comments", "failed")>>} \cup
  {<<Request("get_comments", "ok")>> \o
     [i \in 1..issue.comments |-> [Request("jira_comment", a[i]) EXCEPT !.arg = i]] :
     a \in [1..issue.comments -> {"ok", "failed"}]}

\* mutant: the pull_request key is never looked at
is_pull_request_never(issue) == FALSE

\* "pull_request" in issue
is_pull_request(issue) == issue.pull_request

\* mutant: the marker label is applied although the creation was rejected
on_create_rejected_labels(sent) ==
  {Outcome(sent \o <<[Request("label", "ok") EXCEPT !.labels = {IMPORTED_LABEL}]>>,
           "failed", "target-rejected")}

\* the else branch of "if jira_issue": failed_imports += 1
on_create_rejected(sent) == {Outcome(sent, "failed", "target-rejected")}

\* mutant: an existing target record is counted as a failure and not labelled
on_issue_exists_failed(v, sent) == {Outcome(sent, "failed", "already-exists")}

\* the branch taken when check_issue_exists is true: label, skipped_imports += 1
on_issue_exists(v, sent) ==
  {Outcome(sent \o <<add_label_to_issue(v, l)>>,
           IF l = "raise" THEN "raised" ELSE "skipped",
           IF l = "raise" THEN "network" ELSE "already-exists")
     : l \in WriteAnswers}

\* mutant: the marker label is applied before the comments are copied
AfterCreated_label_first(v, issue, sent) ==
  UNION {
    {Outcome(sent \o <<add_label_to_issue(v, l)>> \o sync \o <<Request("gh_comment", c)>>,
             "created", "created")
       : l \in WriteAnswers \ {"raise"}, c \in WriteAnswers \ {"raise"}}
    : sync \in sync_comments_to_jira(issue)}

\* lines 361-373: after a successful creation
AfterCreated(v, issue, sent) ==
  UNION {
    UNION {
      IF c = "raise"
        THEN {Outcome(sent \o sync \o <<Request("gh_comment", c)>>, "raised", "network")}
        ELSE {Outcome(sent \o sync \o <<Request("gh_comment", c), add_label_to_issue(v, l)>>,
                      IF l = "raise" THEN "raised" ELSE "created",
                      IF l = "raise" THEN "network" ELSE "created")
                : l \in WriteAnswers}
      : c \in WriteAnswers}
    : sync \in sync_comments_to_jira(issue)}

\* lines 298-375: template gate, draft, creation
AfterSearch(v, org, repo_name, issue, sent) ==
  IF TemplateGate(v, issue) THEN {Outcome(sent, "skipped", "no-template")}
  ELSE IF MasterComponent(v, repo_name).raised THEN {Outcome(sent, "raised", "config")}
  ELSE UNION {
    LET loc == AffectedLocations(v, org, g)
        asked == sent \o <<Request("gitea", IF g = << >> THEN "none" ELSE "found")>>
    IN IF loc.raised THEN {Outcome(asked, "raised", "resolver")}
       ELSE UNION {
         LET req == create_issue(repo_name, issue, MasterComponent(v, repo_name).key,
                                 loc.value, c)
         IN CASE c = "raise" -> {Outcome(asked \o <<req>>, "raised", "network")}
              [] c = "rejected" -> on_create_rejected(asked \o <<req>>)
              [] c = "created" -> AfterCreated(v, issue, asked \o <<req>>)
         : c \in CreateAnswers}
    : g \in GiteaAnswers}

\* lines 279-296: the checks that come before the draft
import_to_jira_body(v, org, repo_name, issue, target) ==
  IF is_pull_request(issue) THEN {Outcome(<< >>, "pr", "is-pr")}
  ELSE IF ~InScope(v, issue) THEN {Outcome(<< >>, "skipped", "wrong-kind")}
  ELSE IF is_issue_already_imported(v, issue)
    THEN {Outcome(<< >>, "skipped", "already-imported")}
  ELSE UNION {
    LET asked == <<Request("search", s)>> IN
    IF s = "raise" THEN {Outcome(asked, "raised", "network")}
    ELSE IF check_issue_exists(target, s, issue.number, PROJECT_KEY(v), repo_name)
      THEN on_issue_exists(v, asked)
      ELSE AfterSearch(v, org, repo_name, issue, asked)
    : s \in SearchAnswers}

(***************************************************************************)
(* What the requests of an iteration leave behind in the two systems       *)
(***************************************************************************)
TargetRecord(v, org, repo_name, number, req) ==
  [project |-> PROJECT_KEY(v), summary |-> req.summary, component |-> req.component,
   src |-> <<org, repo_name, number>>]

Created(eff) == {i \in 1..Len(eff) : eff[i].op = "create" /\ eff[i].res = "created"}

ApplyTarget(target, v, org, repo_name, number, eff) ==
  IF Created(eff) = {} THEN target
  ELSE target \o <<TargetRecord(v, org, repo_name, number, eff[CHOOSE i \in Created(eff) : TRUE])>>

ApplyLabels(added, org, repo_name, number, eff) ==
  added \cup {<<org, repo_name, number, l>> :
                l \in UNION {eff[i].labels : i \in {j \in 1..Len(eff) :
                                                     eff[j].op = "label" /\ eff[j].res = "ok"}}}

ApplyComments(commented, org, repo_name, number, eff) ==
  IF \E i \in 1..Len(eff) : eff[i].op = "gh_comment" /\ eff[i].res = "ok"
    THEN commented \cup {<<org, repo_name, number>>}
    ELSE commented

(***************************************************************************)
(* main(): for github_org in github_orgs: for repo_name in repositories    *)
(***************************************************************************)
Step(step, id, eff, out, why) ==
  [step |-> step, id |-> id, eff |-> eff, out |-> out, why |-> why]

CurrentOrg == github_orgs[oi]
CurrentRepo == repositories[ri]

\* mutant: the inner loop is left after one repository
NextPair_skips_org == <<oi + 1, 1>>

\* the loop variables after the inner loop moves on
NextPair ==
  IF ri < Len(repositories) THEN <<oi, ri + 1>> ELSE <<oi + 1, 1>>

\* mutant: the exception is caught outside the two loops
after_exception_abort == <<Len(github_orgs) + 1, 1>>

\* "except Exception ... continue": the inner loop goes on with the next repository
after_exception == NextPair

LeaveImport ==
  /\ issues' = << >>
  /\ ii' = 0
  /\ successful_imports' = 0
  /\ failed_imports' = 0
  /\ skipped_imports' = 0

UnchangedSystems == UNCHANGED <<gh_labels, gh_comments, jira>>

\* get_master_component_for_repo has not been called / what each variant answered
NotCalled ==
  [called |-> FALSE, bug |-> Raised("none"), demand |-> Raised("none"),
   bulk |-> Raised("none")]

\* Python's None where the variable otherwise holds a number
None == 0 - 1

\* the parts of the program that are at rest while another part is exercised
PipelineIdle ==
  /\ run = 0
  /\ pc = "idle"
  /\ oi = 0
  /\ ri = 0
  /\ ii = 0
  /\ issues = << >>
  /\ successful_imports = 0
  /\ failed_imports = 0
  /\ skipped_imports = 0
  /\ total_successful = 0
  /\ total_failed = 0
  /\ total_skipped = 0
  /\ gh_labels = {}
  /\ gh_comments = {}
  /\ jira = << >>
  /\ last = Step("none", << >>, << >>, "none", "none")
  /\ visited = << >>

FnIdle ==
  /\ fn_repo = "r1"
  /\ fn_mapping = repo_component_mapping
  /\ fn_result = NotCalled

RetryIdle ==
  /\ rt_call = "none"
  /\ rt_total = 0
  /\ rt_attempts = << >>
  /\ rt_result = "pending"

NoCall ==
  [method |-> "none", slept |-> FALSE, sent_at |-> 0, remaining_before |-> None,
   reset_before |-> None, answered |-> FALSE, remaining_header |-> None,
   reset_header |-> None]

RateIdle ==
  /\ rate_limit_remaining = None
  /\ rate_limit_reset = None
  /\ now = 0
  /\ gh_call = NoCall
  /\ gh_calls = 0

PageIdle ==
  /\ pg_repo = 0
  /\ per_page = 1
  /\ page = 1
  /\ all_issues = << >>
  /\ pg_pc = "idle"
  /\ pg_requested = << >>

PoolIdle ==
  /\ pool = "none"
  /\ pool_used = 0
  /\ db_pc = "start"
  /\ db_last = [step |-> "none", outcome |-> "none", error |-> "none", rows |-> << >>,
                done |-> 0]

NotResolved ==
  [called |-> FALSE, gitea_client |-> << >>, from_gitea |-> << >>, bug |-> << >>,
   bulk |-> << >>, demand |-> [raised |-> FALSE, value |-> << >>]]

LocIdle ==
  /\ loc_org = "o1"
  /\ loc_directory = [listed |-> FALSE, files |-> << >>]
  /\ loc_result = NotResolved

LblIdle ==
  /\ lbl_issue = Rec(1, FALSE, {}, FALSE, << >>, {}, 0)
  /\ lbl_result = [called |-> FALSE, value |-> FALSE]

\* a body that is None (json null): no text at all
NoBody == << >>

ImportIdle == imp_body = NoBody

NotParsed == [called |-> FALSE, bug |-> {}, demand |-> {}, doc_type |-> << >>]

ParseIdle ==
  /\ ps_body = NoBody
  /\ ps_result = NotParsed

ImageIdle ==
  /\ img_parts = << >>
  /\ img_out = << >>

\* the key url is absent from the template fields (or the argument is None)
NoUrl == << >>

NoFields == [narrative |-> 0, url |-> NoUrl, doc_types |-> 0, context |-> 0, footer |-> 0]

NotBuilt ==
  [built |-> FALSE, assembled |-> << >>, description |-> << >>, test_category |-> "none",
   category_id |-> "none"]

DraftIdle ==
  /\ dr_fields = NoFields
  /\ dr_result = NotBuilt

EnvIdle ==
  /\ environ = {}
  /\ env_pc = "idle"
  /\ env_error = "none"
  /\ env_io = << >>

RaceIdle ==
  /\ cc_pc = << >>
  /\ cc_listed = << >>
  /\ cc_marked = FALSE
  /\ cc_jira = << >>
  /\ cc_log = << >>

StagesIdle == ImportIdle /\ ParseIdle /\ ImageIdle /\ DraftIdle /\ EnvIdle /\ RaceIdle

UnitsIdle ==
  RetryIdle /\ RateIdle /\ PageIdle /\ PoolIdle /\ LocIdle /\ LblIdle /\ StagesIdle

Init ==
  /\ variant \in Variants
  /\ run = 0
  /\ pc = "idle"
  /\ oi = 0
  /\ ri = 0
  /\ ii = 0
  /\ issues = << >>
  /\ successful_imports = 0
  /\ failed_imports = 0
  /\ skipped_imports = 0
  /\ total_successful = 0
  /\ total_failed = 0
  /\ total_skipped = 0
  /\ gh_labels = {}
  /\ gh_comments = {}
  /\ jira = << >>
  /\ last = Step("none", << >>, << >>, "none", "none")
  /\ visited = << >>
  /\ fn_repo = "r1"
  /\ fn_mapping = repo_component_mapping
  /\ fn_result = NotCalled
  /\ UnitsIdle

\* a run starts: get_repositories_from_db(), counters at zero (lines 388-397)
StartRun ==
  /\ pc \in {"idle", "done", "stopped", "aborted"}
  /\ run < MaxRuns
  /\ run' = run + 1
  /\ \E db \in {"ok", "error"} :
       /\ pc' = IF db = "ok" /\ Len(repositories) > 0 THEN "main" ELSE "aborted"
       /\ last' = Step("start", << >>, << >>, db, "db")
  /\ oi' = 1
  /\ ri' = 1
  /\ total_successful' = 0
  /\ total_failed' = 0
  /\ total_skipped' = 0
  /\ visited' = << >>
  /\ LeaveImport
  /\ UnchangedSystems
  /\ UNCHANGED <<variant, fn_vars, unit_vars, stage_vars>>

\* github_client.get_issues(github_org, repo_name) (lines 405-409, 419-421)
GetIssues ==
  /\ pc = "main"
  /\ oi <= Len(github_orgs)
  /\ visited' = Append(visited, <<CurrentOrg, CurrentRepo>>)
  /\ \E answer \in {"ok", "non200", "raise"} :
       LET listed == Listing(variant, CurrentOrg, CurrentRepo, gh_labels) IN
       IF answer = "ok" /\ Len(listed) > 0
         THEN /\ pc' = "import"
              /\ issues' = listed
              /\ ii' = 1
              /\ last' = Step("list", <<CurrentOrg, CurrentRepo>>, << >>, "listed", "ok")
              /\ UNCHANGED <<oi, ri>>
         ELSE /\ pc' = "main"
              /\ issues' = << >>
              /\ ii' = 0
              /\ oi' = (IF answer = "ok" THEN NextPair ELSE after_exception)[1]
              /\ ri' = (IF answer = "ok" THEN NextPair ELSE after_exception)[2]
              /\ last' = IF answer = "ok"
                           THEN Step("list", <<CurrentOrg, CurrentRepo>>, << >>, "empty", "ok")
                           ELSE Step("list", <<CurrentOrg, CurrentRepo>>, << >>, "raised",
                                     "listing")
  /\ successful_imports' = 0
  /\ failed_imports' = 0
  /\ skipped_imports' = 0
  /\ UnchangedSystems
  /\ UNCHANGED <<variant, run, total_successful, total_failed, total_skipped, fn_vars, unit_vars, stage_vars>>

\* one iteration of the loop of import_to_jira, run to its end; results:
\* the ways the iteration can go
ImportRecordFrom(results) ==
  /\ pc = "import"
  /\ ii <= Len(issues)
  /\ \E res \in results :
       LET n == issues[ii].number IN
       /\ jira' = ApplyTarget(jira, variant, CurrentOrg, CurrentRepo, n, res.eff)
       /\ gh_labels' = ApplyLabels(gh_labels, CurrentOrg, CurrentRepo, n, res.eff)
       /\ gh_comments' = ApplyComments(gh_comments, CurrentOrg, CurrentRepo, n, res.eff)
       /\ last' = Step("record", <<CurrentOrg, CurrentRepo, n>>, res.eff, res.out, res.why)
       /\ IF res.out = "raised"
            THEN \* caught by main: the repository is abandoned
                 /\ pc' = "main"
                 /\ oi' = after_exception[1]
                 /\ ri' = after_exception[2]
                 /\ LeaveImport
            ELSE /\ successful_imports' = successful_imports + (IF res.out = "created" THEN 1 ELSE 0)
                 /\ failed_imports' = failed_imports + (IF res.out = "failed" THEN 1 ELSE 0)
                 /\ skipped_imports' = skipped_imports + (IF res.out = "skipped" THEN 1 ELSE 0)
                 /\ ii' = ii + 1
                 /\ UNCHANGED <<pc, oi, ri, issues>>
  /\ UNCHANGED <<variant, run, total_successful, total_failed, total_skipped, visited, fn_vars, unit_vars, stage_vars>>

ImportRecord ==
  /\ pc = "import"
  /\ ii <= Len(issues)
  /\ ImportRecordFrom(import_to_jira_body(variant, CurrentOrg, CurrentRepo, issues[ii], jira))

\* the process is stopped inside an iteration, after p of its requests
ImportStop ==
  /\ pc = "import"
  /\ ii <= Len(issues)
  /\ \E res \in import_to_jira_body(variant, CurrentOrg, CurrentRepo, issues[ii], jira) :
     \E p \in 0..Len(res.eff) :
       LET n == issues[ii].number
           done == SubSeq(res.eff, 1, p)
       IN
       /\ jira' = ApplyTarget(jira, variant, CurrentOrg, CurrentRepo, n, done)
       /\ gh_labels' = ApplyLabels(gh_labels, CurrentOrg, CurrentRepo, n, done)
       /\ gh_comments' = ApplyComments(gh_comments, CurrentOrg, CurrentRepo, n, done)
       /\ last' = Step("stop", <<CurrentOrg, CurrentRepo, n>>, done, "stopped", "stopped")
  /\ pc' = "stopped"
  /\ UNCHANGED <<variant, run, oi, ri, ii, issues, successful_imports, failed_imports,
                 skipped_imports, total_successful, total_failed, total_skipped, visited,
                 fn_vars, unit_vars, stage_vars>>

\* import_to_jira returns its three counters, main adds them (lines 411-417)
ImportReturn ==
  /\ pc = "import"
  /\ ii > Len(issues)
  /\ total_successful' = total_successful + successful_imports
  /\ total_failed' = total_failed + failed_imports
  /\ total_skipped' = total_skipped + skipped_imports
  /\ pc' = "main"
  /\ oi' = NextPair[1]
  /\ ri' = NextPair[2]
  /\ last' = Step("return", <<CurrentOrg, CurrentRepo>>, << >>, "returned", "ok")
  /\ LeaveImport
  /\ UnchangedSystems
  /\ UNCHANGED <<variant, run, visited, fn_vars, unit_vars, stage_vars>>

\* both loops are over: the summary is logged (lines 423-426)
Finish ==
  /\ pc = "main"
  /\ oi > Len(github_orgs)
  /\ pc' = "done"
  /\ last' = Step("finish", << >>, << >>, "summary", "ok")
  /\ UnchangedSystems
  /\ UNCHANGED <<variant, run, oi, ri, ii, issues, successful_imports, failed_imports,
                 skipped_imports, total_successful, total_failed, total_skipped, visited,
                 fn_vars, unit_vars, stage_vars>>

\* the process is stopped between two repositories
Stop ==
  /\ pc = "main"
  /\ pc' = "stopped"
  /\ last' = Step("stop", << >>, << >>, "stopped", "stopped")
  /\ UnchangedSystems
  /\ UNCHANGED <<variant, run, oi, ri, ii, issues, successful_imports, failed_imports,
                 skipped_imports, total_successful, total_failed, total_skipped, visited,
                 fn_vars, unit_vars, stage_vars>>

Next ==
  \/ StartRun
  \/ GetIssues
  \/ ImportRecord
  \/ ImportStop
  \/ ImportReturn
  \/ Finish
  \/ Stop

Spec == Init /\ [][Next]_vars

(***************************************************************************)
(* get_master_component_for_repo on its own: any repository name, any      *)
(* mapping                                                                 *)
(***************************************************************************)
RepoNames == {"r0", "r1", "r2"}
ComponentKeys == {"", "c0", "c1"}
Mappings == UNION {[S -> ComponentKeys] : S \in SUBSET RepoNames}

InitComponent ==
  /\ variant = "demand"
  /\ run = 0
  /\ pc = "idle"
  /\ oi = 0
  /\ ri = 0
  /\ ii = 0
  /\ issues = << >>
  /\ successful_imports = 0
  /\ failed_imports = 0
  /\ skipped_imports = 0
  /\ total_successful = 0
  /\ total_failed = 0
  /\ total_skipped = 0
  /\ gh_labels = {}
  /\ gh_comments = {}
  /\ jira = << >>
  /\ last = Step("none", << >>, << >>, "none", "none")
  /\ visited = << >>
  /\ fn_repo \in RepoNames
  /\ fn_mapping \in Mappings
  /\ fn_result = NotCalled
  /\ UnitsIdle

CallGetMasterComponent ==
  /\ ~fn_result.called
  /\ fn_result' = [called |-> TRUE,
                   bug |-> get_master_component_for_repo_bug(fn_repo, fn_mapping),
                   demand |-> get_master_component_for_repo_demand(fn_repo, fn_mapping),
                   bulk |-> get_master_component_for_repo_bulk(fn_repo)]
  /\ UNCHANGED <<pipeline_vars, fn_repo, fn_mapping, unit_vars, stage_vars>>

NextComponent == CallGetMasterComponent

SpecComponent == InitComponent /\ [][NextComponent]_vars

(***************************************************************************)
(* The session every client sends through: HTTPAdapter(max_retries=        *)
(* Retry(total=3, status_forcelist=[429, 500, 502, 503, 504])) with every  *)
(* method the clients use in allowed_methods.  One action is one request   *)
(* put on the wire.                                                        *)
(***************************************************************************)
\* Retry(total=...): the number of retries the adapter may spend on one call
RetryTotal == 3

\* mutant: responses with status 404 are retried as well
status_forcelist_with_404 == {404, 429, 500, 502, 503, 504}

status_forcelist == {429, 500, 502, 503, 504}

\* what one attempt can end in: no response at all, or a response status
ConnectionFailure == 0
Statuses == {200, 201, 400, 403, 404, 422, 429, 500, 502, 503, 504}
AttemptOutcomes == {ConnectionFailure} \cup Statuses

Transient(outcome) == outcome = ConnectionFailure \/ outcome \in status_forcelist

\* the calls of the three clients that go through the session
GitHubCalls ==
  {"get_issues", "get_all_issues_paginated", "get_issue_comments", "add_label_to_issue",
   "add_comment_to_issue", "create_label", "check_repo_permissions"}
JiraCalls == {"search_issues", "create_issue", "add_comment"}
GiteaCalls == {"get_file_content", "list_directory"}
Calls == GitHubCalls \cup JiraCalls \cup GiteaCalls

\* what a call hands to its caller when the session raises (retries exhausted)
OnException(call) ==
  IF call \in {"get_issue_comments"} THEN "[]"
  ELSE IF call = "add_comment" THEN "False"
  ELSE IF call \in GiteaCalls THEN "None"
  ELSE "raise"

\* what a call hands to its caller for the response the session returned;
\* exists: a 422 answer to create_label whose message says "already_exists"
OnResponse(call, status, exists) ==
  CASE call \in {"get_issues", "get_all_issues_paginated"} ->
         IF status = 200 THEN "json" ELSE "raise"
    [] call = "get_issue_comments" -> IF status = 200 THEN "json" ELSE "[]"
    [] call = "add_label_to_issue" -> IF status = 200 THEN "True" ELSE "False"
    [] call = "add_comment_to_issue" -> IF status = 201 THEN "True" ELSE "False"
    [] call = "create_label" ->
         IF status = 201 THEN "(True, created)"
         ELSE IF status = 422
           THEN IF exists THEN "(True, already_exists)" ELSE "(False, validation_error)"
         ELSE IF status = 403 THEN "(False, permission_denied)"
         ELSE IF status = 404 THEN "(False, not_found)"
         ELSE "(False, error_status)"
    [] call = "check_repo_permissions" -> IF status = 200 THEN "push" ELSE "False"
    [] call = "search_issues" -> IF status = 200 THEN "json" ELSE "None"
    [] call = "create_issue" -> IF status = 201 THEN "json" ELSE "None"
    [] call = "add_comment" -> IF status = 201 THEN "True" ELSE "False"
    [] call \in GiteaCalls -> IF status \in {200, 201} THEN "json" ELSE "None"

InitRetry ==
  /\ variant = "bug"
  /\ PipelineIdle
  /\ FnIdle
  /\ StagesIdle
  /\ rt_call \in Calls
  /\ rt_total = RetryTotal
  /\ rt_attempts = << >>
  /\ rt_result = "pending"
  /\ RateIdle /\ PageIdle /\ PoolIdle /\ LocIdle /\ LblIdle

\* one request is sent; a transient outcome is retried while Retry.total lasts
\* (increment() lowers total and raises once it is below zero)
SendAttempt ==
  /\ rt_result = "pending"
  /\ \E outcome \in AttemptOutcomes, exists \in BOOLEAN :
       /\ exists => (rt_call = "create_label" /\ outcome = 422)
       /\ rt_attempts' = Append(rt_attempts, outcome)
       /\ IF Transient(outcome)
            THEN /\ rt_total' = rt_total - 1
                 /\ rt_result' = IF rt_total - 1 < 0 THEN OnException(rt_call) ELSE "pending"
            ELSE /\ rt_total' = rt_total
                 /\ rt_result' = OnResponse(rt_call, outcome, exists)
  /\ UNCHANGED <<stage_vars, pipeline_vars, fn_vars, rt_call, rate_vars, page_vars, pool_vars, loc_vars,
                 lbl_vars>>

NextRetry == SendAttempt

SpecRetry == InitRetry /\ [][NextRetry]_vars

(***************************************************************************)
(* GitHubClient: every method runs _check_rate_limit(), sends its request  *)
(* and hands the response to _update_rate_limit().                         *)
(***************************************************************************)
\* a header the response does not carry / whose value is no integer
Absent == None
Malformed == 0 - 2

\* X-RateLimit-Remaining and X-RateLimit-Reset as a response may carry them
RemainingHeaders == {Absent, Malformed, 0, 9, 10}
ResetHeaders(t) == {Absent, Malformed, t + 1, t + 3}

\* the defaults of response.headers.get(...)
DefaultRemaining == 5000
DefaultResetAhead == 3600

\* mutant: the client never waits
wait_time_never(remaining, reset, t) == 0

\* _check_rate_limit: the seconds to wait before the request (0: no sleep)
wait_time(remaining, reset, t) ==
  IF remaining # None /\ remaining < 10
    THEN LET reset_time == IF reset = None \/ reset = 0 THEN t ELSE reset
         IN IF reset_time - t > 0 THEN reset_time - t ELSE 0
    ELSE 0

\* _update_rate_limit: the two assignments stand in one try block, so the first
\* value that is no integer ends it
update_rate_limit(remaining_header, reset_header, remaining, reset, t) ==
  IF remaining_header = Malformed THEN <<remaining, reset>>
  ELSE LET r == IF remaining_header = Absent THEN DefaultRemaining ELSE remaining_header
       IN IF reset_header = Malformed THEN <<r, reset>>
          ELSE IF reset_header = Absent THEN <<r, t + DefaultResetAhead>>
          ELSE <<r, reset_header>>

InitRateLimit ==
  /\ variant = "bug"
  /\ PipelineIdle
  /\ FnIdle
  /\ StagesIdle
  /\ RetryIdle
  /\ RateIdle
  /\ PageIdle /\ PoolIdle /\ LocIdle /\ LblIdle

\* the moment the request goes out: after time.sleep(wait_time + 1) if any
SentAt ==
  LET wait == wait_time(rate_limit_remaining, rate_limit_reset, now)
  IN IF wait > 0 THEN now + wait + 1 ELSE now

\* what every GitHubClient method does around its request: check (and sleep),
\* send, update; answered is FALSE when the session raises, and then nothing is
\* updated
RateLimitedRequest(method, answered, rh, th) ==
  LET upd == update_rate_limit(rh, th, rate_limit_remaining, rate_limit_reset, SentAt)
  IN
  /\ now' = SentAt
  /\ gh_call' = [method |-> method, slept |-> SentAt > now, sent_at |-> SentAt,
                 remaining_before |-> rate_limit_remaining,
                 reset_before |-> rate_limit_reset, answered |-> answered,
                 remaining_header |-> rh, reset_header |-> th]
  /\ rate_limit_remaining' = IF answered THEN upd[1] ELSE rate_limit_remaining
  /\ rate_limit_reset' = IF answered THEN upd[2] ELSE rate_limit_reset
  /\ gh_calls' = gh_calls + 1

\* one call of a GitHubClient method that sends one request
GitHubCall ==
  /\ gh_calls < MaxCalls
  /\ \E method \in GitHubCalls \ {"get_all_issues_paginated"} :
       \/ RateLimitedRequest(method, FALSE, Absent, Absent)
       \/ \E rh \in RemainingHeaders, th \in ResetHeaders(SentAt) :
            RateLimitedRequest(method, TRUE, rh, th)
  /\ UNCHANGED <<stage_vars, pipeline_vars, fn_vars, retry_vars, page_vars, pool_vars, loc_vars, lbl_vars>>

\* a second passes between two calls
Tick ==
  /\ now < MaxTime
  /\ now' = now + 1
  /\ UNCHANGED <<stage_vars, pipeline_vars, fn_vars, retry_vars, rate_limit_remaining, rate_limit_reset,
                 gh_call, gh_calls, page_vars, pool_vars, loc_vars, lbl_vars>>

NextRateLimit ==
  \/ GitHubCall
  \/ Tick

SpecRateLimit == InitRateLimit /\ [][NextRateLimit]_vars

(***************************************************************************)
(* GitHubClient.get_all_issues_paginated: one action is one turn of its    *)
(* while loop.  The repository holds pg_repo open records, which the       *)
(* tracker lists newest first, per_page records to a page.                 *)
(***************************************************************************)
Records(n) == [i \in 1..n |-> n - i + 1]

\* response.json() for ?per_page=size&page=p
PageOf(n, size, p) ==
  SubSeq(Records(n), (p - 1) * size + 1, IF p * size < n THEN p * size ELSE n)

InitPages ==
  /\ variant = "bulk"
  /\ PipelineIdle
  /\ FnIdle
  /\ StagesIdle
  /\ RetryIdle
  /\ RateIdle
  /\ pg_repo \in 0..MaxRecords
  /\ per_page \in 1..MaxPerPage
  /\ page = 1
  /\ all_issues = << >>
  /\ pg_pc = "loop"
  /\ pg_requested = << >>
  /\ PoolIdle /\ LocIdle /\ LblIdle

\* mutant: the loop goes on after a page shorter than per_page
short_page_ends_never(fetched, size) == FALSE

\* "if len(issues) < per_page: break"
short_page_ends(fetched, size) == Len(fetched) < size

FetchPage ==
  /\ pg_pc = "loop"
  /\ pg_requested' = Append(pg_requested, [page |-> page, per_page |-> per_page])
  /\ \/ \* the session raises
        /\ RateLimitedRequest("get_all_issues_paginated", FALSE, Absent, Absent)
        /\ pg_pc' = "raised"
        /\ UNCHANGED <<page, all_issues>>
     \/ \* a response whose status is not 200
        /\ \E rh \in RemainingHeaders, th \in ResetHeaders(SentAt) :
             RateLimitedRequest("get_all_issues_paginated", TRUE, rh, th)
        /\ pg_pc' = "raised"
        /\ UNCHANGED <<page, all_issues>>
     \/ \* 200
        /\ \E rh \in RemainingHeaders, th \in ResetHeaders(SentAt) :
             RateLimitedRequest("get_all_issues_paginated", TRUE, rh, th)
        /\ LET fetched == PageOf(pg_repo, per_page, page) IN
           IF fetched = << >>
             THEN /\ pg_pc' = "returned"
                  /\ UNCHANGED <<page, all_issues>>
             ELSE /\ all_issues' = all_issues \o fetched
                  /\ page' = page + 1
                  /\ pg_pc' = IF short_page_ends(fetched, per_page) THEN "returned" ELSE "loop"
  /\ UNCHANGED <<stage_vars, pipeline_vars, fn_vars, retry_vars, pg_repo, per_page, pool_vars, loc_vars,
                 lbl_vars>>

NextPages == FetchPage

\* the loop is the only thing the caller runs: it takes its next turn
SpecPages == InitPages /\ [][NextPages]_vars /\ WF_vars(FetchPage)

(***************************************************************************)
(* The Repository Directory: Database (a SimpleConnectionPool made on      *)
(* first use), get_repositories_from_db of the three importers, and the    *)
(* way main() of each importer leaves.                                     *)
(***************************************************************************)
\* what the query can return: the repositories of the target squads, in order
RowSets ==
  {<< >>, <<"r0">>, <<"r1">>, <<"r2">>, <<"r0", "r1">>, <<"r0", "r2">>, <<"r1", "r2">>,
   <<"r0", "r1", "r2">>}

\* how one call of get_repositories_from_db can go
DbOutcomes == {"pool_error", "getconn_error", "query_error", "rows"}

\* what is raised when a step fails: a psycopg2.Error or another exception
ErrorClasses == {"psycopg2.Error", "Exception"}

\* the except clause of main(): bug_postgres catches psycopg2.Error only, the
\* other two catch Exception
main_catches(v, error) == v # "bug" \/ error = "psycopg2.Error"

\* bug and demand take the connection inside "with database.get_connection()",
\* whose finally runs pool.putconn(conn); bulk takes it with connect_to_db()
\* and ends with conn.close(), which does not hand it back to the pool
releases_connection(v) == v \in {"bug", "demand"}

\* main() of demand_postgres ends in "finally: database.close_pool()"; main()
\* of bug_postgres and of bulk_import have no such clause
drains_pool(v) == v = "demand"

InitPool ==
  /\ variant \in Variants
  /\ PipelineIdle
  /\ FnIdle
  /\ StagesIdle
  /\ RetryIdle /\ RateIdle /\ PageIdle
  /\ PoolIdle
  /\ LocIdle /\ LblIdle

\* get_repositories_from_db(), from get_pool() to its return or raise
GetRepositoriesFromDb ==
  /\ db_pc = "start"
  /\ \E outcome \in DbOutcomes, rows \in RowSets, error \in ErrorClasses \cup {"none"} :
       /\ outcome # "rows" => rows = << >>
       /\ (outcome = "rows") <=> (error = "none")
       /\ pool' = IF outcome = "pool_error" THEN "none" ELSE "open"
       /\ pool_used' =
            IF outcome \in {"pool_error", "getconn_error"} THEN pool_used
            ELSE IF releases_connection(variant) THEN pool_used
            ELSE pool_used + 1
       /\ db_pc' = IF outcome = "rows" THEN "returned" ELSE "raised"
       /\ db_last' = [step |-> "get_repositories_from_db", outcome |-> outcome,
                      error |-> error, rows |-> rows, done |-> 0]
  /\ UNCHANGED <<stage_vars, pipeline_vars, fn_vars, retry_vars, rate_vars, page_vars, loc_vars, lbl_vars>>

\* main() goes through the repositories; what fails inside is caught per repository
ProcessRepository ==
  /\ db_pc \in {"returned", "loops"}
  /\ db_last.done < Len(db_last.rows)
  /\ db_pc' = "loops"
  /\ db_last' = [db_last EXCEPT !.step = "repository", !.done = @ + 1]
  /\ UNCHANGED <<stage_vars, pipeline_vars, fn_vars, retry_vars, rate_vars, page_vars, pool, pool_used,
                 loc_vars, lbl_vars>>

\* main() leaves: after the summary, by the early return ("No repositories
\* found"), through its except clause, or with an exception it does not catch
MainExit ==
  /\ \/ db_pc = "raised"
     \/ db_pc \in {"returned", "loops"} /\ db_last.done = Len(db_last.rows)
  /\ db_pc' = "exited"
  /\ db_last' = [db_last EXCEPT !.step = "exit",
                                !.outcome = IF db_pc = "raised"
                                              THEN IF main_catches(variant, db_last.error)
                                                     THEN "critical" ELSE "uncaught"
                                            ELSE IF db_last.rows = << >> THEN "no-repositories"
                                            ELSE "summary"]
  /\ pool' = IF drains_pool(variant) /\ pool = "open" THEN "closed" ELSE pool
  /\ UNCHANGED <<stage_vars, pipeline_vars, fn_vars, retry_vars, rate_vars, page_vars, pool_used,
                 loc_vars, lbl_vars>>

NextPool ==
  \/ GetRepositoriesFromDb
  \/ ProcessRepository
  \/ MainExit

SpecPool == InitPool /\ [][NextPool]_vars

(***************************************************************************)
(* The metadata repository and the affected-locations resolvers.  The      *)
(* directory is what list_directory() returns (or its failure); an entry   *)
(* is a file that is no .yaml file ("other"), a .yaml file whose content   *)
(* get_file_content() could not fetch ("unfetched"), one whose content is  *)
(* no YAML mapping ("broken"), or a descriptor with its public_org and     *)
(* affected_locations.  None and the empty list are both << >>.            *)
(***************************************************************************)
Entry(kind, public_org, affected_locations) ==
  [kind |-> kind, public_org |-> public_org, affected_locations |-> affected_locations]

Entries ==
  {Entry("other", "", << >>), Entry("unfetched", "", << >>), Entry("broken", "", << >>)}
  \cup {Entry("descriptor", o, l) : o \in {"o1", "o3"}, l \in {<< >>, <<"A">>, <<"B">>}}

Directories ==
  {[listed |-> FALSE, files |-> << >>]}
  \cup {[listed |-> TRUE, files |-> f] : f \in UNION {[1..n -> Entries] : n \in 0..MaxFiles}}

\* yaml_files = [item for item in files if type == 'file' and name ends with '.yaml']
yaml_files(files) == SelectSeq(files, LAMBDA item : item.kind # "other")

\* the for loop of GiteaClient.get_affected_locations_for_org from entry i on
RECURSIVE gitea_client_loop(_, _, _)
gitea_client_loop(files, org_name, i) ==
  IF i > Len(files) THEN << >>
  ELSE IF files[i].kind = "unfetched" THEN gitea_client_loop(files, org_name, i + 1)
  ELSE IF files[i].kind = "broken" THEN << >>
  ELSE IF files[i].public_org = org_name /\ files[i].affected_locations # << >>
    THEN files[i].affected_locations
  ELSE gitea_client_loop(files, org_name, i + 1)

\* GiteaClient.get_affected_locations_for_org (config/connections.py)
gitea_client_get_affected_locations_for_org(org_name, directory) ==
  IF ~directory.listed \/ directory.files = << >> THEN << >>
  ELSE gitea_client_loop(yaml_files(directory.files), org_name, 1)

\* the for loop of get_affected_locations_from_gitea from entry i on
RECURSIVE from_gitea_loop(_, _, _)
from_gitea_loop(files, org_name, i) ==
  IF i > Len(files) THEN << >>
  ELSE IF files[i].kind = "unfetched" THEN from_gitea_loop(files, org_name, i + 1)
  ELSE IF files[i].kind = "broken" THEN << >>
  ELSE IF files[i].public_org = org_name THEN files[i].affected_locations
  ELSE from_gitea_loop(files, org_name, i + 1)

\* get_affected_locations_from_gitea (scripts/bug_postgres.py)
get_affected_locations_from_gitea(org_name, directory) ==
  IF ~directory.listed \/ directory.files = << >> THEN << >>
  ELSE from_gitea_loop(yaml_files(directory.files), org_name, 1)

InitLocations ==
  /\ variant = "bug"
  /\ PipelineIdle
  /\ FnIdle
  /\ StagesIdle
  /\ RetryIdle /\ RateIdle /\ PageIdle /\ PoolIdle
  /\ loc_org \in {"o1", "o3"}
  /\ loc_directory \in Directories
  /\ loc_result = NotResolved
  /\ LblIdle

\* every resolver is called for loc_org against the same directory
CallResolvers ==
  /\ ~loc_result.called
  /\ LET client == gitea_client_get_affected_locations_for_org(loc_org, loc_directory)
         script == get_affected_locations_from_gitea(loc_org, loc_directory)
     IN loc_result' =
          [called |-> TRUE, gitea_client |-> client, from_gitea |-> script,
           bug |-> get_affected_locations_for_org_fallback(loc_org, script),
           bulk |-> get_affected_locations_for_org_fallback(loc_org, client),
           demand |-> get_affected_locations_for_org_strict(loc_org, client)]
  /\ UNCHANGED <<stage_vars, pipeline_vars, fn_vars, retry_vars, rate_vars, page_vars, pool_vars, loc_org,
                 loc_directory, lbl_vars>>

NextLocations == CallResolvers

SpecLocations == InitLocations /\ [][NextLocations]_vars

(***************************************************************************)
(* is_issue_already_imported on its own: any set of label names            *)
(***************************************************************************)
LabelNames == {"imported-to-jira", "bulk", "Imported-To-Jira", "imported", "bug"}

InitLabels ==
  /\ variant \in Variants
  /\ PipelineIdle
  /\ FnIdle
  /\ StagesIdle
  /\ RetryIdle /\ RateIdle /\ PageIdle /\ PoolIdle /\ LocIdle
  /\ lbl_issue \in {Rec(1, FALSE, labels, FALSE, << >>, {}, 0) : labels \in SUBSET LabelNames}
  /\ lbl_result = [called |-> FALSE, value |-> FALSE]

CallIsImported ==
  /\ ~lbl_result.called
  /\ lbl_result' = [called |-> TRUE, value |-> is_issue_already_imported(variant, lbl_issue)]
  /\ UNCHANGED <<stage_vars, pipeline_vars, fn_vars, retry_vars, rate_vars, page_vars, pool_vars, loc_vars,
                 lbl_issue>>

NextLabels == CallIsImported

SpecLabels == InitLabels /\ [][NextLabels]_vars

(***************************************************************************)
(* The text of a body as the list of its lines, text.split("\n"): the      *)
(* empty string is one blank line, None is no line at all.  A line is a    *)
(* section header ("### ..."), a checkbox ("- [x] label"), other text or   *)
(* blank.                                                                  *)
(***************************************************************************)
Line(kind, mark, text) == [kind |-> kind, mark |-> mark, text |-> text]
Blank == Line("blank", "", "")
Header(h) == Line("header", "", h)
Text(t) == Line("text", "", t)
Box(mark, label) == Line("box", mark, label)

EmptyBody == <<Blank>>

\* the first line after line i that is not blank (0: there is none): what the
\* greedy \s* of the patterns runs up to
next_text(lines, i) ==
  IF \E j \in (i + 1)..Len(lines) : lines[j].kind # "blank"
    THEN CHOOSE j \in (i + 1)..Len(lines) :
           /\ lines[j].kind # "blank"
           /\ \A m \in (i + 1)..(j - 1) : lines[m].kind = "blank"
    ELSE 0

\* re.search(r'<header>\s*\n\s*([\s\S]*?)(?:\n\s*###|$)', body): the line of the
\* leftmost match (0: no match).  The header has to be followed by a newline.
section_start(lines, header) ==
  IF \E i \in 1..(Len(lines) - 1) : lines[i] = Header(header)
    THEN CHOOSE i \in 1..(Len(lines) - 1) :
           /\ lines[i] = Header(header)
           /\ \A m \in 1..(i - 1) : lines[m] # Header(header)
    ELSE 0

\* the lazy group that starts on line f ends before the first "\n\s*###" that
\* follows it, or at the end of the body
section_end(lines, f) ==
  IF \E k \in f..Len(lines) : next_text(lines, k) # 0 /\ lines[next_text(lines, k)].kind = "header"
    THEN CHOOSE k \in f..Len(lines) :
           /\ next_text(lines, k) # 0 /\ lines[next_text(lines, k)].kind = "header"
           /\ \A m \in f..(k - 1) :
                ~(next_text(lines, m) # 0 /\ lines[next_text(lines, m)].kind = "header")
    ELSE Len(lines)

\* str.strip() of a block of lines
RECURSIVE strip(_)
strip(block) ==
  IF block = << >> THEN << >>
  ELSE IF block[1].kind = "blank" THEN strip(Tail(block))
  ELSE IF block[Len(block)].kind = "blank" THEN strip(SubSeq(block, 1, Len(block) - 1))
  ELSE block

\* group(1) of the match of a section, stripped
section_block(lines, header) ==
  LET i == section_start(lines, header)
      f == next_text(lines, i)
  IN IF i = 0 \/ f = 0 THEN << >> ELSE strip(SubSeq(lines, f, section_end(lines, f)))

\* line.strip().startswith('- [x]')
checked(line) == line.kind = "box" /\ line.mark = "x"

\* the list built from the "Documents Requested" block (demand, lines 165-172)
doc_types(block) ==
  LET marked == SelectSeq(block, checked)
  IN [i \in 1..Len(marked) |-> marked[i].text]

\* parse_github_issue_body on the text: the keys of the mapping it returns
\* (named by their headers) and the value of the key doc_type
parse_github_issue_body_text(v, lines) ==
  IF lines = NoBody \/ lines = EmptyBody
    THEN [keys |-> {}, doc_type |-> << >>]
    ELSE [keys |-> {h \in RecognizedHeaders(v) : section_start(lines, h) # 0},
          doc_type |-> IF v = "demand"
                         THEN doc_types(section_block(lines, "### Documents Requested"))
                         ELSE << >>]

\* the field body of a record of the tracker: the section headers of the text
\* that a line follows
SectionHeaders(lines) ==
  {lines[i].text : i \in {j \in 1..(Len(lines) - 1) : lines[j].kind = "header"}}

(***************************************************************************)
(* import_to_jira on its own: it is handed a list of one record, whatever  *)
(* the record, while the target holds the record already or not.           *)
(***************************************************************************)
ImportLabelSets == SUBSET {"bug", "Bug", "DEMAND", "question", IMPORTED_LABEL}

ImportTitles ==
  { << >>, <<"[bug]", "typo">>, <<"[Bug]", "typo">>, <<"[DEMAND]", "api">>,
    <<"how", "[BUG]">>, <<"how", "to">> }

ImportLines ==
  {Blank, Text("steps"), Header("### Description"), Header("### Summary"),
   Header("### Notes")}

ImportBodies == {NoBody} \cup UNION {[1..n -> ImportLines] : n \in 1..MaxBody}

\* a body that uses the template of the deployed importer
TemplateBody(v) == <<Header(TemplateHeader(v)), Text("steps")>>

\* what an earlier import of record 1 of r1 left in the target
Imported(v) ==
  [project |-> PROJECT_KEY(v), summary |-> <<"r1", "GitHub", "Issue", NumTok(1)>>,
   component |-> "c1", src |-> <<"o1", "r1", 1>>]

InitImport ==
  /\ variant \in Variants
  /\ run = 1
  /\ pc = "import"
  /\ oi = 1
  /\ ri = 1
  /\ ii = 1
  /\ \/ /\ imp_body = TemplateBody(variant)
        /\ jira = << >>
        /\ \E pr \in BOOLEAN, labels \in ImportLabelSets, title \in ImportTitles :
             issues = <<Rec(1, pr, labels, title # << >>, title, SectionHeaders(imp_body), 0)>>
     \/ /\ imp_body \in ImportBodies
        /\ jira \in {<< >>, <<Imported(variant)>>}
        /\ \E pr \in BOOLEAN :
             issues = <<Rec(1, pr, IF variant = "bulk" THEN {} ELSE {KindLabel(variant)},
                            FALSE, << >>, SectionHeaders(imp_body), 0)>>
  /\ successful_imports = 0
  /\ failed_imports = 0
  /\ skipped_imports = 0
  /\ total_successful = 0
  /\ total_failed = 0
  /\ total_skipped = 0
  /\ gh_labels = {}
  /\ gh_comments = {}
  /\ last = Step("list", <<"o1", "r1">>, << >>, "listed", "ok")
  /\ visited = << <<"o1", "r1">> >>
  /\ fn_repo = "r1"
  /\ fn_mapping = repo_component_mapping
  /\ fn_result = NotCalled
  /\ RetryIdle /\ RateIdle /\ PageIdle /\ PoolIdle /\ LocIdle /\ LblIdle
  /\ ParseIdle /\ ImageIdle /\ DraftIdle /\ EnvIdle /\ RaceIdle

NextImport ==
  \/ ImportRecord
  \/ ImportReturn

SpecImport == InitImport /\ [][NextImport]_vars

(***************************************************************************)
(* parse_github_issue_body on its own: any body of a few lines             *)
(***************************************************************************)
ParseLines ==
  {Blank, Header("### Documents Requested"), Header("### Additional Context"),
   Box("x", "API"), Box(" ", "UMN"), Text("notes")}

ParseBodies == {NoBody} \cup UNION {[1..n -> ParseLines] : n \in 1..MaxLines}

InitParse ==
  /\ PipelineIdle
  /\ variant = "demand"
  /\ FnIdle
  /\ RetryIdle /\ RateIdle /\ PageIdle /\ PoolIdle /\ LocIdle /\ LblIdle
  /\ ImportIdle /\ ImageIdle /\ DraftIdle /\ EnvIdle /\ RaceIdle
  /\ ps_body \in ParseBodies
  /\ ps_result = NotParsed

CallParse ==
  /\ ~ps_result.called
  /\ ps_result' = [called |-> TRUE,
                   bug |-> parse_github_issue_body_text("bug", ps_body).keys,
                   demand |-> parse_github_issue_body_text("demand", ps_body).keys,
                   doc_type |-> parse_github_issue_body_text("demand", ps_body).doc_type]
  /\ UNCHANGED <<pipeline_vars, fn_vars, unit_vars, import_vars, image_vars, draft_vars,
                 env_vars, race_vars, ps_body>>

NextParse == CallParse

SpecParse == InitParse /\ [][NextParse]_vars

(***************************************************************************)
(* convert_github_images_to_jira.  A text is the sequence of its           *)
(* characters; the literals <img and src=" of the first pattern are one    *)
(* element each.  In the texts considered every src=" is followed by the   *)
(* character u and a double quote, so that the greedy [^>]+ of the first   *)
(* pattern ends at the last src=" in front of the first ">".               *)
(***************************************************************************)
Quote == "\""
ImgOpen == "<img"
SrcAttr == "src=\""

\* the first occurrence of ch at or after position from (0: there is none)
First(text, from, ch) ==
  IF \E k \in from..Len(text) : text[k] = ch
    THEN CHOOSE k \in from..Len(text) :
           text[k] = ch /\ \A m \in from..(k - 1) : text[m] # ch
    ELSE 0

\* r'<img[^>]+src="([^"]+)"[^>]*>' tried at position i with src=" at j: the
\* position of the closing ">" (0: no match)
html_close(text, j) ==
  LET k == First(text, j + 1, Quote)
  IN IF k > j + 1 THEN First(text, k + 1, ">") ELSE 0

html_src(text, i) ==
  LET cands == {j \in (i + 2)..Len(text) :
                  /\ text[j] = SrcAttr
                  /\ \A m \in (i + 1)..(j - 1) : text[m] # ">"
                  /\ html_close(text, j) # 0}
  IN IF text[i] = ImgOpen /\ cands # {}
       THEN CHOOSE j \in cands : \A m \in cands : m <= j
       ELSE 0

RECURSIVE html_sub(_, _)
html_sub(text, i) ==
  IF i > Len(text) THEN << >>
  ELSE IF html_src(text, i) # 0
    THEN LET j == html_src(text, i)
         IN <<"!">> \o SubSeq(text, j + 1, First(text, j + 1, Quote) - 1) \o <<"!">>
              \o html_sub(text, html_close(text, j) + 1)
    ELSE <<text[i]>> \o html_sub(text, i + 1)

\* r'!\[([^\]]*)\]\(([^)]+)\)' tried at position i: the position of the
\* closing ")" (0: no match)
markdown_close(text, i) ==
  IF i + 1 <= Len(text) /\ text[i] = "!" /\ text[i + 1] = "["
    THEN LET rb == First(text, i + 2, "]")
         IN IF rb # 0 /\ rb + 1 <= Len(text) /\ text[rb + 1] = "("
              THEN LET rp == First(text, rb + 2, ")")
                   IN IF rp > rb + 2 THEN rp ELSE 0
              ELSE 0
    ELSE 0

RECURSIVE markdown_sub(_, _)
markdown_sub(text, i) ==
  IF i > Len(text) THEN << >>
  ELSE IF markdown_close(text, i) # 0
    THEN <<"!">> \o SubSeq(text, First(text, i + 2, "]") + 2, markdown_close(text, i) - 1)
           \o <<"!">> \o markdown_sub(text, markdown_close(text, i) + 1)
    ELSE <<text[i]>> \o markdown_sub(text, i + 1)

convert_github_images_to_jira(text) ==
  IF text = << >> THEN text ELSE markdown_sub(html_sub(text, 1), 1)

\* the pieces of a text: images in both syntaxes, a link, other text
PartNames == {"markdown", "markdown_paren", "html", "link", "plain"}

PartText(part) ==
  CASE part = "markdown" -> <<"!", "[", "a", "]", "(", "u", ")">>
    [] part = "markdown_paren" -> <<"!", "[", "a", "]", "(", "u", "(", "v", ")", ")">>
    [] part = "html" -> <<ImgOpen, " ", SrcAttr, "u", Quote, ">">>
    [] part = "link" -> <<"[", "a", "]", "(", "u", ")">>
    [] part = "plain" -> <<"t">>

RECURSIVE Flatten(_)
Flatten(parts) ==
  IF parts = << >> THEN << >> ELSE PartText(parts[1]) \o Flatten(Tail(parts))

InitImages ==
  /\ PipelineIdle
  /\ variant = "bug"
  /\ FnIdle
  /\ RetryIdle /\ RateIdle /\ PageIdle /\ PoolIdle /\ LocIdle /\ LblIdle
  /\ ImportIdle /\ ParseIdle /\ DraftIdle /\ EnvIdle /\ RaceIdle
  /\ img_parts \in UNION {[1..n -> PartNames] : n \in 0..MaxParts}
  /\ img_out = << >>

\* the function is applied to the text, then to what it returned
Convert ==
  /\ Len(img_out) < MaxApplications
  /\ img_out' = Append(img_out,
                       convert_github_images_to_jira(
                         IF img_out = << >> THEN Flatten(img_parts)
                                            ELSE img_out[Len(img_out)]))
  /\ UNCHANGED <<pipeline_vars, fn_vars, unit_vars, import_vars, parse_vars, draft_vars,
                 env_vars, race_vars, img_parts>>

NextImages == Convert

SpecImages == InitImages /\ [][NextImages]_vars

(***************************************************************************)
(* The draft of a record: description and test category (bug_postgres.py   *)
(* lines 315-343, demand_postgres.py 246-269, bulk_import.py 210-226).     *)
(* A text is the sequence of the parts it was put together from, each with *)
(* the number of characters of the part that are in the text; the lengths  *)
(* of narrative and context are those after the image conversion.  A URL   *)
(* is the list url.split("/").                                             *)
(***************************************************************************)
MaxDescription == 32767

UrlHeading == 20
ContextHeading == 26
DocTypesHeading == 27
NoDescription == 23

TEST_CATEGORY_IDS == [c \in {"QA", "UAT", "Security"} |->
                        CASE c = "QA" -> "17600" [] c = "UAT" -> "17601" [] OTHER -> "17602"]

HARDCODED_VALUES == [k \in {"test_category"} |-> "QA"]

Part(name, len) == IF len = 0 THEN << >> ELSE <<[part |-> name, len |-> len]>>

RECURSIVE Length(_)
Length(text) == IF text = << >> THEN 0 ELSE text[1].len + Length(Tail(text))

\* text[:n]
RECURSIVE Slice(_, _)
Slice(text, n) ==
  IF text = << >> \/ n = 0 THEN << >>
  ELSE IF text[1].len <= n THEN <<text[1]>> \o Slice(Tail(text), n - text[1].len)
  ELSE <<[text[1] EXCEPT !.len = n]>>

\* mutant: the description is submitted as it was put together
truncate_none(text) == text

\* description_with_link[:32767]
truncate(text) == Slice(text, MaxDescription)

\* str.lower() and str.strip() on the pieces of a URL
url_lower(w) ==
  CASE w \in {"umn", "UMN", "Umn"} -> "umn"
    [] w \in {" UMN ", " umn "} -> " umn "
    [] w \in {"api-ref", "API-REF"} -> "api-ref"
    [] OTHER -> w

url_strip(w) == IF w = " umn " THEN "umn" ELSE w

WordLen(w) ==
  CASE w = "" -> 0
    [] w \in {"umn", "UMN", "Umn"} -> 3
    [] w \in {" UMN ", " umn "} -> 5
    [] w \in {"api-ref", "API-REF"} -> 7
    [] w = "https:" -> 6
    [] w = "host" -> 4
    [] w = "x.html" -> 6

RECURSIVE UrlChars(_)
UrlChars(url) ==
  IF url = << >> THEN 0
  ELSE WordLen(url[1]) + (IF Len(url) > 1 THEN 1 + UrlChars(Tail(url)) ELSE 0)

\* "not url": None or the empty string
url_falsy(url) == url = NoUrl \/ url = <<"">>

\* mutant: the category does not depend on the URL
determine_test_category_from_url_qa(url) == "QA"

determine_test_category_from_url(url) ==
  IF url_falsy(url) THEN "QA"
  ELSE IF \/ \E i \in 2..(Len(url) - 1) : url_lower(url[i]) = "umn"
          \/ Len(url) = 1 /\ url_strip(url_lower(url[1])) = "umn"
    THEN "UAT"
  ELSE IF \E i \in 2..(Len(url) - 1) : url_lower(url[i]) = "api-ref" THEN "QA"
  ELSE "QA"

\* description_with_link of the three importers
description_with_link(v, f) ==
  CASE v = "bug" ->
         Part("narrative", f.narrative)
           \o (IF ~url_falsy(f.url)
                 THEN Part("url_heading", UrlHeading) \o Part("url", UrlChars(f.url))
                 ELSE << >>)
           \o (IF f.context > 0
                 THEN Part("context_heading", ContextHeading) \o Part("context", f.context)
                 ELSE << >>)
           \o Part("footer", f.footer)
    [] v = "demand" ->
         Part("narrative", f.narrative)
           \o (IF f.doc_types > 0
                 THEN Part("doc_types_heading", DocTypesHeading)
                        \o Part("doc_types", f.doc_types)
                 ELSE << >>)
           \o (IF f.context > 0
                 THEN Part("context_heading", ContextHeading) \o Part("context", f.context)
                 ELSE << >>)
           \o Part("footer", f.footer)
    [] v = "bulk" ->
         (IF f.narrative = 0 THEN Part("no_description", NoDescription)
                             ELSE Part("narrative", f.narrative))
           \o Part("footer", f.footer)

test_category(v, f) ==
  CASE v = "bug" -> determine_test_category_from_url(f.url)
    [] v = "bulk" -> HARDCODED_VALUES["test_category"]
    [] v = "demand" -> "none"

\* the texts and URLs a record may carry
NarrativeLengths == {0, 100, 32000, 32767, 40000}
ContextLengths == {0, 500, 33000}
DocTypesLengths == {0, 8}
FooterLengths == {90}

Urls ==
  { NoUrl, <<"">>, <<"umn">>, <<"UMN">>, <<" UMN ">>, <<"api-ref">>,
    <<"https:", "", "host", "umn", "x.html">>, <<"https:", "", "host", "UMN", "x.html">>,
    <<"https:", "", "host", "api-ref", "x.html">>, <<"https:", "", "host", "x.html">>,
    <<"https:", "", "host", "umn">>, <<"umn", "x.html">>,
    <<"https:", "", "host", "api-ref", "umn", "x.html">> }

InitDraft ==
  /\ PipelineIdle
  /\ variant \in Variants
  /\ FnIdle
  /\ RetryIdle /\ RateIdle /\ PageIdle /\ PoolIdle /\ LocIdle /\ LblIdle
  /\ ImportIdle /\ ParseIdle /\ ImageIdle /\ EnvIdle /\ RaceIdle
  /\ \E n \in NarrativeLengths, c \in ContextLengths, fl \in FooterLengths :
       \/ /\ variant = "bug"
          /\ \E u \in Urls :
               dr_fields = [narrative |-> n, url |-> u, doc_types |-> 0, context |-> c,
                            footer |-> fl]
       \/ /\ variant = "demand"
          /\ \E d \in DocTypesLengths :
               dr_fields = [narrative |-> n, url |-> NoUrl, doc_types |-> d, context |-> c,
                            footer |-> fl]
       \/ /\ variant = "bulk"
          /\ dr_fields = [narrative |-> n, url |-> NoUrl, doc_types |-> 0, context |-> 0,
                          footer |-> fl]
  /\ dr_result = NotBuilt

BuildDraft ==
  /\ ~dr_result.built
  /\ LET category == test_category(variant, dr_fields) IN
     dr_result' = [built |-> TRUE,
                   assembled |-> description_with_link(variant, dr_fields),
                   description |-> truncate(description_with_link(variant, dr_fields)),
                   test_category |-> category,
                   category_id |-> IF category = "none" THEN "none"
                                   ELSE TEST_CATEGORY_IDS[category]]
  /\ UNCHANGED <<pipeline_vars, fn_vars, unit_vars, import_vars, parse_vars, image_vars,
                 env_vars, race_vars, dr_fields>>

NextDraft == BuildDraft

SpecDraft == InitDraft /\ [][NextDraft]_vars

(***************************************************************************)
(* Start of a script: the module-level statements build EnvVariables and   *)
(* the clients from it (bug_postgres.py lines 12-16), then main() runs.    *)
(***************************************************************************)
required_env_vars ==
  << "DB_HOST", "DB_PORT", "DB_CSV", "DB_USER", "DB_PASSWORD",
     "GITHUB_TOKEN", "GITHUB_API_URL", "GITHUB_ORGS",
     "JIRA_API_URL", "JIRA_CERT_PATH", "JIRA_KEY_PATH",
     "BASE_GITEA_URL", "DEH", "ASG", "ECS", "IMS", "BMS", "RDS", "OPENGAUSS",
     "GEMINIDB", "MYSQL", "DRS", "DAS", "DDM", "DDS" >>

\* variables EnvVariables reads without requiring them
OptionalEnvVars == {"GITHUB_FALLBACK_TOKEN", "JIRA_TOKEN"}

Required == {required_env_vars[i] : i \in 1..Len(required_env_vars)}

\* mutant: nothing is checked
check_env_variables_skipped(env) == "none"

\* the variable the exception of check_env_variables names ("none": no exception)
check_env_variables(env) ==
  IF \E i \in 1..Len(required_env_vars) : required_env_vars[i] \notin env
    THEN required_env_vars[CHOOSE i \in 1..Len(required_env_vars) :
                             /\ required_env_vars[i] \notin env
                             /\ \A m \in 1..(i - 1) : required_env_vars[m] \in env]
    ELSE "none"

InitEnv ==
  /\ PipelineIdle
  /\ variant \in Variants
  /\ FnIdle
  /\ RetryIdle /\ RateIdle /\ PageIdle /\ PoolIdle /\ LocIdle /\ LblIdle
  /\ ImportIdle /\ ParseIdle /\ ImageIdle /\ DraftIdle /\ RaceIdle
  /\ \E missing \in {m \in SUBSET Required : Cardinality(m) <= MaxMissing},
        optional \in SUBSET OptionalEnvVars :
       environ = (Required \ missing) \cup optional
  /\ env_pc = "start"
  /\ env_error = "none"
  /\ env_io = << >>

\* env_vars = EnvVariables()
ConstructEnvVariables ==
  /\ env_pc = "start"
  /\ env_error' = check_env_variables(environ)
  /\ env_pc' = IF check_env_variables(environ) = "none" THEN "constructed" ELSE "raised"
  /\ UNCHANGED <<pipeline_vars, fn_vars, unit_vars, import_vars, parse_vars, image_vars,
                 draft_vars, race_vars, environ, env_io>>

\* database = Database(env_vars) ... gitea_client = GiteaClient(env_vars)
BuildClients ==
  /\ env_pc = "constructed"
  /\ env_pc' = "main"
  /\ UNCHANGED <<pipeline_vars, fn_vars, unit_vars, import_vars, parse_vars, image_vars,
                 draft_vars, race_vars, environ, env_error, env_io>>

\* main(): repositories = get_repositories_from_db()
QueryRepositories ==
  /\ env_pc = "main"
  /\ env_io' = Append(env_io, "db_query")
  /\ \E rows \in {"none", "some"} : env_pc' = IF rows = "some" THEN "loops" ELSE "exited"
  /\ UNCHANGED <<pipeline_vars, fn_vars, unit_vars, import_vars, parse_vars, image_vars,
                 draft_vars, race_vars, environ, env_error>>

\* main(): issues = github_client.get_issues(github_org, repo_name)
RequestIssues ==
  /\ env_pc = "loops"
  /\ env_io' = Append(env_io, "http_request")
  /\ env_pc' = "exited"
  /\ UNCHANGED <<pipeline_vars, fn_vars, unit_vars, import_vars, parse_vars, image_vars,
                 draft_vars, race_vars, environ, env_error>>

NextEnv ==
  \/ ConstructEnvVariables
  \/ BuildClients
  \/ QueryRepositories
  \/ RequestIssues

SpecEnv == InitEnv /\ [][NextEnv]_vars

(***************************************************************************)
(* One run of main() that is left to run to its end: the process is not    *)
(* stopped from outside.  Every call returns or raises (the clients have   *)
(* timeouts), so the run goes on as long as it has a step to take.         *)
(***************************************************************************)
StartMain == run = 0 /\ StartRun

NextMain ==
  \/ StartMain
  \/ GetIssues
  \/ ImportRecord
  \/ ImportReturn
  \/ Finish

SpecMain == Init /\ [][NextMain]_vars /\ WF_vars(NextMain)

(***************************************************************************)
(* Two or more runs of a batch driver at the same time, followed on one    *)
(* source record (record 1 of o1/r1, in scope, with the template) through  *)
(* lines 289-296 and 359-373 of import_to_jira.  Each request reaches its  *)
(* system at one instant; the requests of different runs interleave.       *)
(***************************************************************************)
Processes == 1..MaxProcesses

Event(p, op, res) == [p |-> p, op |-> op, res |-> res]

InitRace ==
  /\ PipelineIdle
  /\ variant \in {"bug", "demand"}
  /\ FnIdle
  /\ RetryIdle /\ RateIdle /\ PageIdle /\ PoolIdle /\ LocIdle /\ LblIdle
  /\ ImportIdle /\ ParseIdle /\ ImageIdle /\ DraftIdle /\ EnvIdle
  /\ cc_pc = [p \in Processes |-> "start"]
  /\ cc_listed = [p \in Processes |-> FALSE]
  /\ cc_marked = FALSE
  /\ cc_jira = << >>
  /\ cc_log = << >>

UnchangedOthers ==
  UNCHANGED <<pipeline_vars, fn_vars, unit_vars, import_vars, parse_vars, image_vars,
              draft_vars, env_vars>>

\* github_client.get_issues: the run gets the record with the labels it has now
ListRecord(p) ==
  /\ cc_pc[p] = "start"
  /\ cc_listed' = [cc_listed EXCEPT ![p] = cc_marked]
  /\ cc_pc' = [cc_pc EXCEPT ![p] = "listed"]
  /\ cc_log' = Append(cc_log, Event(p, "list", "ok"))
  /\ UNCHANGED <<cc_marked, cc_jira>>
  /\ UnchangedOthers

\* is_issue_already_imported(issue), on the record as it was listed
CheckLabel(p) ==
  /\ cc_pc[p] = "listed"
  /\ cc_pc' = [cc_pc EXCEPT ![p] = IF cc_listed[p] THEN "skipped" ELSE "search"]
  /\ UNCHANGED <<cc_listed, cc_marked, cc_jira, cc_log>>
  /\ UnchangedOthers

\* jira_client.check_issue_exists, and the label request that follows a hit
SearchTarget(p) ==
  /\ cc_pc[p] = "search"
  /\ \E answer \in {"ok", "non200"} :
       LET found == check_issue_exists(cc_jira, answer, 1, PROJECT_KEY(variant), "r1") IN
       /\ cc_log' = Append(cc_log, Event(p, "search", answer))
                      \o (IF found THEN <<Event(p, "label", "ok")>> ELSE << >>)
       /\ cc_marked' = (cc_marked \/ found)
       /\ cc_pc' = [cc_pc EXCEPT ![p] = IF found THEN "skipped" ELSE "create"]
  /\ UNCHANGED <<cc_listed, cc_jira>>
  /\ UnchangedOthers

\* jira_client.create_issue(issue_data)
CreateTarget(p) ==
  /\ cc_pc[p] = "create"
  /\ \E answer \in {"created", "rejected"} :
       /\ cc_log' = Append(cc_log, Event(p, "create", answer))
       /\ cc_jira' = IF answer = "created" THEN Append(cc_jira, Imported(variant)) ELSE cc_jira
       /\ cc_pc' = [cc_pc EXCEPT ![p] = IF answer = "created" THEN "mark" ELSE "failed"]
  /\ UNCHANGED <<cc_listed, cc_marked>>
  /\ UnchangedOthers

\* add_comment_to_issue and add_label_to_issue after the creation
MarkSource(p) ==
  /\ cc_pc[p] = "mark"
  /\ cc_log' = Append(cc_log, Event(p, "label", "ok"))
  /\ cc_marked' = TRUE
  /\ cc_pc' = [cc_pc EXCEPT ![p] = "created"]
  /\ UNCHANGED <<cc_listed, cc_jira>>
  /\ UnchangedOthers

NextRace ==
  \E p \in Processes :
    \/ ListRecord(p)
    \/ CheckLabel(p)
    \/ SearchTarget(p)
    \/ CreateTarget(p)
    \/ MarkSource(p)

SpecRace == InitRace /\ [][NextRace]_vars

(***************************************************************************)
(* The loop of import_to_jira with its pauses: time.sleep after every      *)
(* comment submitted by sync_comments_to_jira and at the end of the loop   *)
(* body.  import_to_jira is handed one record with up to MaxComments       *)
(* comments, of any kind, with the target holding the record or not.       *)
(***************************************************************************)
\* time.sleep(0.5) at the end of the loop body, in tenths of a second
RecordDelay == 5

\* the argument of time.sleep in sync_comments_to_jira, in tenths of a second
CommentDelay(v) == IF v = "bulk" THEN 10 ELSE 5

Sleep(tenths) == [Request("sleep", "ok") EXCEPT !.arg = tenths]

\* sync_comments_to_jira sleeps after every add_comment, accepted or not
RECURSIVE with_comment_delays(_, _)
with_comment_delays(v, eff) ==
  IF eff = << >> THEN << >>
  ELSE (IF Head(eff).op = "jira_comment" THEN <<Head(eff), Sleep(CommentDelay(v))>>
                                         ELSE <<Head(eff)>>)
         \o with_comment_delays(v, Tail(eff))

\* mutant: the loop body ends in the sleep on every path that does not raise
end_of_iteration_always(res) ==
  IF res.out # "raised" THEN <<Sleep(RecordDelay)>> ELSE << >>

\* the sleep that ends the loop body is reached after "if jira_issue ... else"
\* only: every "continue" and every exception leaves the body before it
end_of_iteration(res) ==
  IF res.out \in {"created", "failed"} THEN <<Sleep(RecordDelay)>> ELSE << >>

import_to_jira_paced(v, org, repo_name, issue, target) ==
  {[res EXCEPT !.eff = with_comment_delays(v, @) \o end_of_iteration(res)] :
     res \in import_to_jira_body(v, org, repo_name, issue, target)}

PacedLabelSets(v) ==
  {{}, {KindLabel(v)}, {KindLabel(v), IMPORTED_LABEL}}

InitPaced ==
  /\ variant \in Variants
  /\ run = 1
  /\ pc = "import"
  /\ oi = 1
  /\ ri = 1
  /\ ii = 1
  /\ jira \in {<< >>, <<Imported(variant)>>}
  /\ \E pr \in BOOLEAN, labels \in PacedLabelSets(variant), n \in 0..MaxComments,
        body \in {{}, {TemplateHeader(variant)}} :
       issues = <<Rec(1, pr, labels, FALSE, << >>, body, n)>>
  /\ successful_imports = 0
  /\ failed_imports = 0
  /\ skipped_imports = 0
  /\ total_successful = 0
  /\ total_failed = 0
  /\ total_skipped = 0
  /\ gh_labels = {}
  /\ gh_comments = {}
  /\ last = Step("list", <<"o1", "r1">>, << >>, "listed", "ok")
  /\ visited = << <<"o1", "r1">> >>
  /\ fn_repo = "r1"
  /\ fn_mapping = repo_component_mapping
  /\ fn_result = NotCalled
  /\ UnitsIdle

PacedRecord ==
  /\ pc = "import"
  /\ ii <= Len(issues)
  /\ ImportRecordFrom(import_to_jira_paced(variant, CurrentOrg, CurrentRepo, issues[ii], jira))

NextPaced ==
  \/ PacedRecord
  \/ ImportReturn

SpecPaced == InitPaced /\ [][NextPaced]_vars

(***************************************************************************)
(* The duplicate search of one record as the session carries it out: the   *)
(* request of search_issues is sent, and sent again after a transient      *)
(* outcome, and import_to_jira goes on with what the call handed back.     *)
(* The record is in scope and unlabelled; the target holds it or not.      *)
(***************************************************************************)
\* what import_to_jira sees of the call of search_issues
SearchAnswer(result) ==
  CASE result = "json" -> "ok"
    [] result = "None" -> "non200"
    [] result = "raise" -> "raise"

InitSearch ==
  /\ variant \in Variants
  /\ run = 1
  /\ pc = "import"
  /\ oi = 1
  /\ ri = 1
  /\ ii = 1
  /\ jira \in {<< >>, <<Imported(variant)>>}
  /\ \E body \in {{}, {TemplateHeader(variant)}} :
       issues = <<Rec(1, FALSE, IF variant = "bulk" THEN {} ELSE {KindLabel(variant)},
                      FALSE, << >>, body, 0)>>
  /\ successful_imports = 0
  /\ failed_imports = 0
  /\ skipped_imports = 0
  /\ total_successful = 0
  /\ total_failed = 0
  /\ total_skipped = 0
  /\ gh_labels = {}
  /\ gh_comments = {}
  /\ last = Step("list", <<"o1", "r1">>, << >>, "listed", "ok")
  /\ visited = << <<"o1", "r1">> >>
  /\ fn_repo = "r1"
  /\ fn_mapping = repo_component_mapping
  /\ fn_result = NotCalled
  /\ rt_call = "search_issues"
  /\ rt_total = RetryTotal
  /\ rt_attempts = << >>
  /\ rt_result = "pending"
  /\ RateIdle /\ PageIdle /\ PoolIdle /\ LocIdle /\ LblIdle /\ StagesIdle

\* the iteration of the record, its search answered as the session answered
SearchedRecord ==
  /\ pc = "import"
  /\ ii <= Len(issues)
  /\ rt_result # "pending"
  /\ ImportRecordFrom(
       {res \in import_to_jira_body(variant, CurrentOrg, CurrentRepo, issues[ii], jira) :
          \A i \in 1..Len(res.eff) :
            res.eff[i].op = "search" => res.eff[i].res = SearchAnswer(rt_result)})

NextSearch ==
  \/ SendAttempt
  \/ SearchedRecord
  \/ ImportReturn

SpecSearch == InitSearch /\ [][NextSearch]_vars

(***************************************************************************)
(* Properties                                                              *)
(***************************************************************************)
\* the pairs in the order main() visits them
AllPairs ==
  [k \in 1..(Len(github_orgs) * Len(repositories)) |->
     <<github_orgs[((k - 1) \div Len(repositories)) + 1],
       repositories[((k - 1) % Len(repositories)) + 1]>>]

PairIndex(org, repo) == CHOOSE k \in 1..Len(AllPairs) : AllPairs[k] = <<org, repo>>

\* the loop variables that stand on pair number k (or past the last pair)
Position(k) ==
  <<((k - 1) \div Len(repositories)) + 1, ((k - 1) % Len(repositories)) + 1>>

Ops(eff) == {eff[i].op : i \in 1..Len(eff)}

MarkerOn(labels, v, id) ==
  \A l \in MarkerLabels(v) : <<id[1], id[2], id[3], l>> \in labels

\* the record the loop of import_to_jira stands on
AtRecord == pc = "import" /\ ii <= Len(issues)

\* C1: over any sequence of runs, each of which may stop anywhere, at most one
\* target record is ever created for a source record.
C1_ExactlyOnce ==
  \A i, j \in 1..Len(jira) : jira[i].src = jira[j].src => i = j

\* the record is not a pull request, is in scope, lacks the marker label, and the
\* duplicate search (answered 200) finds it in the target; the step is a full
\* iteration of the loop on it
C2_Case ==
  /\ AtRecord
  /\ ~issues[ii].pull_request
  /\ InScope(variant, issues[ii])
  /\ ~is_issue_already_imported(variant, issues[ii])
  /\ search_issues(jira, issues[ii].number, PROJECT_KEY(variant), CurrentRepo) # {}
  /\ last'.step = "record"
  /\ Len(last'.eff) > 0
  /\ last'.eff[1].res = "ok"

\* C2 as stated: after the pass the marker label is on the source record, the
\* record is counted as skipped, not as failed or created, and no creation
\* request was sent.
C2_Original ==
  [][C2_Case =>
       /\ MarkerOn(gh_labels', variant, last'.id)
       /\ skipped_imports' = skipped_imports + 1
       /\ failed_imports' = failed_imports
       /\ successful_imports' = successful_imports
       /\ "create" \notin Ops(last'.eff)
       /\ jira' = jira]_vars

\* C2 (amended): the pass sends one marker-label request for the record and no
\* creation request and counts nothing as failed or created; when the source
\* tracker accepts the label request the marker label is on the record, and
\* unless that request raises the record is counted as skipped.
C2_SelfHealing ==
  [][C2_Case =>
       /\ Len(last'.eff) = 2
       /\ last'.eff[2].op = "label"
       /\ last'.eff[2].labels = MarkerLabels(variant)
       /\ jira' = jira
       /\ gh_comments' = gh_comments
       /\ UNCHANGED <<total_successful, total_failed, total_skipped>>
       /\ last'.eff[2].res = "ok" => MarkerOn(gh_labels', variant, last'.id)
       /\ last'.eff[2].res # "ok" => gh_labels' = gh_labels
       /\ last'.eff[2].res # "raise" =>
            /\ skipped_imports' = skipped_imports + 1
            /\ failed_imports' = failed_imports
            /\ successful_imports' = successful_imports
       /\ last'.eff[2].res = "raise" => last'.out = "raised" /\ pc' = "main"]_vars

C2_Witness ==
  /\ last.step = "record"
  /\ last.why = "already-exists"
  /\ last.eff[2].res = "ok"
  /\ MarkerOn(gh_labels, variant, last.id)
  /\ skipped_imports > 0

\* C3: every target record the pipeline created carries a summary the duplicate
\* search for its own (number, repository) matches: it contains the number and
\* the repository name.
C3_Linkage ==
  \A k \in 1..Len(jira) :
    /\ Contains(jira[k].summary, NumTok(jira[k].src[3]))
    /\ Contains(jira[k].summary, jira[k].src[2])

CreateRejected(eff) ==
  \E i \in 1..Len(eff) : eff[i].op = "create" /\ eff[i].res = "rejected"

\* C4: when create_issue returns no issue the record is counted as failed, and
\* nothing is written for it: no comment and no label on the source record, no
\* comment copied to the target, no target record.
C4_RejectedLeavesNoTrace ==
  [][(last'.step = "record" /\ CreateRejected(last'.eff)) =>
       /\ failed_imports' = failed_imports + 1
       /\ successful_imports' = successful_imports
       /\ skipped_imports' = skipped_imports
       /\ Ops(last'.eff) \cap {"gh_comment", "label", "jira_comment"} = {}
       /\ gh_labels' = gh_labels
       /\ gh_comments' = gh_comments
       /\ jira' = jira]_vars

C4_Witness ==
  /\ last.step = "record"
  /\ CreateRejected(last.eff)
  /\ failed_imports > 0

\* C5: on a record that carries the pull_request key the pipeline sends no
\* request at all (no search, no creation, no comment, no label), whatever the
\* labels and the title of the record.
C5_PullRequestSkipped ==
  [][(AtRecord /\ issues[ii].pull_request) =>
       /\ last'.eff = << >>
       /\ last'.step = "record" => last'.out = "pr" /\ ii' = ii + 1
       /\ successful_imports' = successful_imports
       /\ failed_imports' = failed_imports
       /\ jira' = jira
       /\ gh_labels' = gh_labels
       /\ gh_comments' = gh_comments]_vars

C5_Witness ==
  /\ last.step = "record"
  /\ last.out = "pr"
  /\ last.id = <<"o1", "r1", 4>>
  /\ \E i \in 1..Len(issues) :
       /\ issues[i].number = 4
       /\ issues[i].pull_request
       /\ InScope(variant, [issues[i] EXCEPT !.pull_request = FALSE])

\* C6: a record for which the strict resolver fails, or whose creation is
\* rejected, is counted as failed and the loop goes on with the next record of
\* the same repository.
C6_PerRecordIsolation ==
  [][(last'.step = "record" /\ last'.why \in {"resolver", "target-rejected"}) =>
       /\ failed_imports' = failed_imports + 1
       /\ pc' = "import"
       /\ ii' = ii + 1
       /\ issues' = issues]_vars

\* C7: an exception while listing or processing a repository abandons only that
\* pair: main stands on the pair that follows, every pair before it was visited,
\* and a run that reaches the summary has visited every pair.
C7_RepositoryIsolation ==
  /\ last.out = "raised" =>
       LET k == PairIndex(last.id[1], last.id[2]) IN
       /\ pc = "main"
       /\ <<oi, ri>> = Position(k + 1)
       /\ visited = SubSeq(AllPairs, 1, k)
  /\ pc = "done" => visited = AllPairs

C7_Witness ==
  /\ last.out = "raised"
  /\ last.why = "listing"
  /\ oi <= Len(github_orgs)
  /\ Len(visited) < Len(AllPairs)

\* C8: no target record is tagged with a component other than the one
\* REPO_TO_MASTER_COMPONENT maps to its own repository (resolution raises for a
\* repository without entry, in every variant).
C8_OwnComponent ==
  \A k \in 1..Len(jira) :
    /\ Lookup(ComponentTable, jira[k].src[2]) # ""
    /\ jira[k].component = Lookup(ComponentTable, jira[k].src[2])

\* C9 as stated: once component resolution has failed, no further repository or
\* organization is listed in that run.
C9_Original ==
  [][(last.why = "config" /\ run' = run) => visited' = visited]_vars

\* C9 (amended): a missing component mapping aborts the current repository
\* only: no creation request is sent for the record, the rest of the
\* repository's records is dropped, and main stands on the following pair.
C9_ConfigErrorAbortsRepository ==
  last.why = "config" =>
    /\ last.step = "record"
    /\ last.out = "raised"
    /\ "create" \notin Ops(last.eff)
    /\ Lookup(ComponentTable, last.id[2]) = ""
    /\ pc = "main"
    /\ issues = << >>
    /\ <<oi, ri>> = Position(PairIndex(last.id[1], last.id[2]) + 1)

C9_Witness ==
  /\ last.why = "config"
  /\ oi <= Len(github_orgs)
  /\ ENABLED GetIssues

TableKeys == {REPO_TO_MASTER_COMPONENT[i].key : i \in 1..Len(REPO_TO_MASTER_COMPONENT)}

C11_BoundedRetry ==
  (\A i \in 1..Len(rt_attempts) : Transient(rt_attempts[i])) => Len(rt_attempts) <= 3

ClientError(outcome) == outcome \in 400..499 /\ outcome # 429

\* C12 as stated: a response with a 4xx status other than 429 is the only
\* attempt of its call, and the caller gets a raised exception, None or False.
C12_Original ==
  [][(rt_attempts = << >> /\ rt_attempts' # << >> /\ ClientError(rt_attempts'[1])) =>
       /\ Len(rt_attempts') = 1
       /\ rt_result' \in {"raise", "None", "False"}]_vars

\* C12 (amended): a response with a 4xx status other than 429 is never
\* retried: it is the last attempt of its call, spends no retry, and the call
\* returns at once what it makes of that one response: get_issues and
\* get_all_issues_paginated raise, search_issues, create_issue and the Gitea
\* calls return None, the label, comment and permission calls return False,
\* get_issue_comments returns an empty list, and create_label returns
\* (False, reason), or (True, "already_exists") for a 422 that says so.
C12_ClientErrorNotRetried ==
  \A i \in 1..Len(rt_attempts) :
    ClientError(rt_attempts[i]) =>
      /\ i = Len(rt_attempts)
      /\ rt_total = RetryTotal - (i - 1)
      /\ rt_result # "pending"
      /\ rt_call \in {"get_issues", "get_all_issues_paginated"} => rt_result = "raise"
      /\ rt_call \in {"search_issues", "create_issue"} \cup GiteaCalls => rt_result = "None"
      /\ rt_call \in {"add_label_to_issue", "add_comment_to_issue", "add_comment",
                       "check_repo_permissions"} => rt_result = "False"
      /\ rt_call = "get_issue_comments" => rt_result = "[]"
      /\ rt_call = "create_label" =>
           /\ rt_result \in {"(False, validation_error)", "(False, permission_denied)",
                              "(False, not_found)", "(False, error_status)",
                              "(True, already_exists)"}
           /\ rt_result = "(True, already_exists)" => rt_attempts[i] = 422

C12_Witness ==
  /\ rt_call = "create_issue"
  /\ rt_attempts = <<404>>
  /\ rt_total = RetryTotal
  /\ rt_result = "None"

QuotaLow(c) == c.remaining_before # None /\ c.remaining_before < 10

FirstPages(k) == SubSeq(Records(pg_repo), 1, IF k * per_page < pg_repo THEN k * per_page ELSE pg_repo)

PagesInOrder ==
  /\ \A i \in 1..Len(pg_requested) : pg_requested[i] = [page |-> i, per_page |-> per_page]
  /\ pg_pc = "loop" =>
       /\ page = Len(pg_requested) + 1
       /\ all_issues = FirstPages(Len(pg_requested))
       /\ \A i \in 1..Len(pg_requested) : Len(PageOf(pg_repo, per_page, i)) = per_page
  /\ pg_pc = "returned" =>
       /\ all_issues = Records(pg_repo)
       /\ all_issues = FirstPages(Len(pg_requested))
       /\ Len(PageOf(pg_repo, per_page, Len(pg_requested))) < per_page
       /\ \A i \in 1..(Len(pg_requested) - 1) : Len(PageOf(pg_repo, per_page, i)) = per_page

\* C14: get_all_issues_paginated requests the pages 1, 2, 3, ... in order with
\* one page size, stops at the first page that is empty or shorter than the
\* page size, returns the fetched pages concatenated in page order, and always
\* comes to an end.
C14_Pagination == []PagesInOrder /\ <>(pg_pc \in {"returned", "raised"})

C14_Witness ==
  /\ pg_pc = "returned"
  /\ per_page = 2
  /\ pg_repo = 4
  /\ Len(pg_requested) = 3
  /\ all_issues = <<4, 3, 2, 1>>

\* C15: after get_repositories_from_db has returned or raised, no connection
\* remains checked out of the pool.
C15_ScopedAcquisition ==
  db_pc # "start" => pool_used = 0

\* C16: when main() of an importer has left, on whichever path, the pool it
\* created has been drained.
C16_PoolDrained ==
  (db_pc = "exited" /\ pool # "none") => pool = "closed"

C18_FallbackMetadata ==
  loc_result.called =>
    /\ loc_result.bug # << >>
    /\ loc_result.bulk # << >>
    /\ loc_result.from_gitea # << >> => loc_result.bug = loc_result.from_gitea
    /\ loc_result.gitea_client # << >> => loc_result.bulk = loc_result.gitea_client
    /\ \A got \in {<<loc_result.from_gitea, loc_result.bug>>,
                    <<loc_result.gitea_client, loc_result.bulk>>} :
         got[1] = << >> =>
           /\ loc_org \in DOMAIN FALLBACK_AFFECTED_LOCATIONS =>
                got[2] = FALLBACK_AFFECTED_LOCATIONS[loc_org]
           /\ loc_org \notin DOMAIN FALLBACK_AFFECTED_LOCATIONS => got[2] = <<"loc-default">>

C18_Witness ==
  /\ loc_result.called
  /\ loc_org = "o1"
  /\ loc_directory.listed
  /\ Len(loc_directory.files) = 2
  /\ loc_result.gitea_client = << >>
  /\ loc_result.bulk = FALLBACK_AFFECTED_LOCATIONS["o1"]
  /\ loc_result.bug = loc_result.bulk

\* the descriptors that were fetched, and the first one of the organization
Fetched(directory) ==
  SelectSeq(directory.files, LAMBDA item : item.kind \in {"descriptor", "broken"})

FirstOfOrg(org_name, directory) ==
  LET d == Fetched(directory)
      at == {i \in 1..Len(d) : d[i].kind = "descriptor" /\ d[i].public_org = org_name}
  IN IF at = {} THEN 0 ELSE CHOOSE i \in at : \A j \in at : i <= j

\* C19: both implementations of the metadata resolver return the same result
\* for every directory content, and when every fetched file is a descriptor it
\* is the affected_locations list of the first descriptor, in listing order,
\* whose public_org is the requested organization.
C19_ResolverEquivalence ==
  loc_result.called =>
    /\ loc_result.gitea_client = loc_result.from_gitea
    /\ (/\ loc_directory.listed
        /\ (\A i \in 1..Len(loc_directory.files) : loc_directory.files[i].kind # "broken")
        /\ FirstOfOrg(loc_org, loc_directory) # 0) =>
         loc_result.gitea_client =
           Fetched(loc_directory)[FirstOfOrg(loc_org, loc_directory)].affected_locations

\* C20: is_issue_already_imported is true exactly when one of the record's
\* label names equals a marker label of the importer, false when the record
\* has no label or none of the marker labels, and the call sends no request.
C20_AlreadyImported ==
  lbl_result.called =>
    /\ lbl_result.value <=> (\E l \in lbl_issue.labels : l \in MarkerLabels(variant))
    /\ lbl_issue.labels = {} => ~lbl_result.value
    /\ lbl_issue.labels \cap MarkerLabels(variant) = {} => ~lbl_result.value
    /\ gh_calls = 0
    /\ rt_attempts = << >>
    /\ last.step = "none"

C20_Witness ==
  /\ lbl_result.called
  /\ variant = "bulk"
  /\ lbl_issue.labels = {"bulk", "Imported-To-Jira"}
  /\ lbl_result.value

\* the spellings of a word that differ in case only
BugLabelForms == {"bug", "Bug", "BUG", "bUg", "buG", "BUg", "bUG", "BuG"}
DemandLabelForms == {"demand", "Demand", "DEMAND"}
BugPrefixForms == {"[bug]", "[Bug]", "[BUG]"}
DemandPrefixForms == {"[demand]", "[Demand]", "[DEMAND]"}

KindByForms(issue, labelForms, prefixForms) ==
  \/ issue.labels \cap labelForms # {}
  \/ Len(issue.title) > 0 /\ issue.title[1] \in prefixForms

Classifies(issue) ==
  /\ is_bug_issue(issue) <=> KindByForms(issue, BugLabelForms, BugPrefixForms)
  /\ is_demand_issue(issue) <=> KindByForms(issue, DemandLabelForms, DemandPrefixForms)

WrongKind(v, issue) ==
  \/ v = "bug" /\ ~is_bug_issue(issue)
  \/ v = "demand" /\ ~is_demand_issue(issue)

SkippedUntouched ==
  /\ last'.step = "record"
  /\ last'.out = "skipped"
  /\ last'.eff = << >>
  /\ skipped_imports' = skipped_imports + 1
  /\ successful_imports' = successful_imports
  /\ failed_imports' = failed_imports
  /\ jira' = jira
  /\ gh_labels' = gh_labels
  /\ gh_comments' = gh_comments

HasRecognizedHeader(v, lines) ==
  \E i \in 1..Len(lines) : lines[i].kind = "header" /\ lines[i].text \in RecognizedHeaders(v)

ParsesEmpty(v, lines) == parse_github_issue_body_text(v, lines).keys = {}

\* the effects of the step are free of creations and of writes to the source
NoCreateNoWrite ==
  /\ Ops(last'.eff) \cap {"create", "jira_comment", "gh_comment", "label"} = {}
  /\ jira' = jira
  /\ gh_labels' = gh_labels
  /\ gh_comments' = gh_comments

\* C22 as stated: every record whose body parses to the empty mapping is
\* counted as skipped, with no target record created and no write to the
\* source (iterations that an exception ends are left aside).
C22_Original ==
  [][(AtRecord /\ variant # "bulk" /\ ParsesEmpty(variant, imp_body) /\ last'.out # "raised") =>
       /\ last'.out = "skipped"
       /\ skipped_imports' = skipped_imports + 1
       /\ NoCreateNoWrite]_vars

\* a record that gets as far as the duplicate search
ReachesSearch ==
  /\ AtRecord
  /\ variant # "bulk"
  /\ ~issues[ii].pull_request
  /\ InScope(variant, issues[ii])
  /\ ~is_issue_already_imported(variant, issues[ii])

\* C22: parse_github_issue_body returns the empty mapping for every body that
\* is None, empty or without a recognized section header; a record whose body
\* parses to the empty mapping and that reaches the template gate (no pull
\* request, in scope, no marker label, duplicate search answered and nothing
\* found) is counted as skipped, and its iteration sends the search only: no
\* target record is created and nothing is written to the source record.
C22_TemplateGate ==
  [][(AtRecord /\ variant # "bulk") =>
       /\ ~HasRecognizedHeader(variant, imp_body) => ParsesEmpty(variant, imp_body)
       /\ parse_github_issue_body(variant, issues[ii].body)
            = parse_github_issue_body_text(variant, imp_body).keys
       /\ (ReachesSearch /\ ParsesEmpty(variant, imp_body)) =>
            /\ last'.step = "record"
            /\ Len(last'.eff) >= 1
            /\ last'.eff[1].op = "search"
            /\ IF last'.eff[1].res = "raise" THEN last'.out = "raised"
               ELSE IF check_issue_exists(jira, last'.eff[1].res, issues[ii].number,
                                          PROJECT_KEY(variant), CurrentRepo)
                 THEN "create" \notin Ops(last'.eff)
               ELSE /\ last'.out = "skipped"
                    /\ last'.why = "no-template"
                    /\ Len(last'.eff) = 1
                    /\ skipped_imports' = skipped_imports + 1
                    /\ successful_imports' = successful_imports
                    /\ failed_imports' = failed_imports
                    /\ NoCreateNoWrite]_vars

C22_Witness ==
  /\ last.step = "record"
  /\ last.why = "no-template"
  /\ imp_body = <<Header("### Notes"), Text("steps")>>
  /\ skipped_imports = 1
  /\ jira = << >>
  /\ gh_labels = {}

\* the lines of a section: those after its header, up to the next header
SectionLines(lines, header) ==
  LET i == CHOOSE k \in 1..Len(lines) :
             lines[k] = Header(header) /\ \A m \in 1..(k - 1) : lines[m] # Header(header)
      later == {k \in (i + 1)..Len(lines) : lines[k].kind = "header"}
      j == IF later = {} THEN Len(lines) + 1
           ELSE CHOOSE k \in later : \A m \in later : k <= m
  IN SubSeq(lines, i + 1, j - 1)

CheckedLabels(block) ==
  LET marked == SelectSeq(block, LAMBDA l : l.kind = "box" /\ l.mark = "x")
  IN [i \in 1..Len(marked) |-> marked[i].text]

\* C23: the list parsed from the "Documents Requested" section holds, in line
\* order, the label of exactly the lines of the section that start with the
\* checked marker "- [x]"; its length is the number of those lines.
C23_CheckedOnly ==
  (ps_result.called /\ "### Documents Requested" \in ps_result.demand) =>
    ps_result.doc_type = CheckedLabels(SectionLines(ps_body, "### Documents Requested"))

\* C24: applying convert_github_images_to_jira to its own result changes
\* nothing: twice is the same as once.
C24_Idempotent ==
  Len(img_out) >= 2 => img_out[2] = img_out[1]

\* the address of an image piece
ImageUrl(part) ==
  CASE part \in {"markdown", "html"} -> <<"u">>
    [] part = "markdown_paren" -> <<"u", "(", "v", ")">>

Images(parts) == {i \in 1..Len(parts) : parts[i] \in {"markdown", "markdown_paren", "html"}}

Occurs(piece, text) ==
  \E i \in 1..(Len(text) - Len(piece) + 1) : SubSeq(text, i, i + Len(piece) - 1) = piece

\* C25: the result for a text with images holds every address between single
\* exclamation marks, no "![" and no <img; a text without images is returned
\* as it is.
C25_ImagesConverted ==
  Len(img_out) >= 1 =>
    IF Images(img_parts) = {} THEN img_out[1] = Flatten(img_parts)
    ELSE /\ \A i \in Images(img_parts) :
              Occurs(<<"!">> \o ImageUrl(img_parts[i]) \o <<"!">>, img_out[1])
         /\ ~Occurs(<<"!", "[">>, img_out[1])
         /\ ~Occurs(<<ImgOpen>>, img_out[1])

\* text d is the beginning of text a
IsPrefix(d, a) ==
  /\ Len(d) <= Len(a)
  /\ \A i \in 1..(Len(d) - 1) : d[i] = a[i]
  /\ Len(d) > 0 => /\ d[Len(d)].part = a[Len(d)].part
                   /\ d[Len(d)].len <= a[Len(d)].len

\* C26: the description submitted to the target has at most 32,767
\* characters; when the assembled description is longer, the submitted one is
\* exactly its first 32,767 characters, otherwise it is the assembled one.
C26_Truncation ==
  dr_result.built =>
    /\ Length(dr_result.description) <= 32767
    /\ IsPrefix(dr_result.description, dr_result.assembled)
    /\ IF Length(dr_result.assembled) > 32767
         THEN Length(dr_result.description) = 32767
         ELSE dr_result.description = dr_result.assembled

C26_Witness ==
  /\ dr_result.built
  /\ variant = "bug"
  /\ dr_fields.narrative = 32000
  /\ dr_fields.context = 33000
  /\ Length(dr_result.assembled) > 32767
  /\ Length(dr_result.description) = 32767
  /\ dr_result.description[Len(dr_result.description)].part = "context"

UmnForms == {"umn", "UMN", "Umn"}

\* the text of the URL holds "/umn/" in some spelling
HoldsUmnSegment(url) == \E i \in 2..(Len(url) - 1) : url[i] \in UmnForms

\* the URL is the word umn in some spelling, with or without blanks around it
IsUmnWord(url) == Len(url) = 1 /\ url[1] \in UmnForms \cup {" UMN ", " umn "}

\* C27 as stated: "UAT" when the URL holds "/umn/", "QA" in every other case.
C27_Original ==
  (dr_result.built /\ variant = "bug") =>
    dr_result.test_category = IF HoldsUmnSegment(dr_fields.url) THEN "UAT" ELSE "QA"

\* C27: determine_test_category_from_url returns "UAT" when the URL holds
\* "/umn/" in any spelling or is the bare word "umn" (any spelling, blanks
\* around it ignored), and "QA" in every other case (api-ref, neither marker,
\* empty, None); the category id of the draft is the id mapped to the category.
C27_TestCategory ==
  (dr_result.built /\ variant = "bug") =>
    /\ dr_result.test_category =
         IF HoldsUmnSegment(dr_fields.url) \/ IsUmnWord(dr_fields.url) THEN "UAT" ELSE "QA"
    /\ dr_result.category_id = IF dr_result.test_category = "UAT" THEN "17601" ELSE "17600"

C27_Witness ==
  /\ dr_result.built
  /\ variant = "bug"
  /\ dr_fields.url = <<"https:", "", "host", "UMN", "x.html">>
  /\ dr_result.test_category = "UAT"
  /\ dr_result.category_id = "17601"

VisitedInOrder ==
  /\ Len(visited) <= Len(AllPairs)
  /\ \A k \in 1..Len(visited) : visited[k] = AllPairs[k]

SummaryLogged == pc = "done" /\ last.out = "summary"

\* C29 as stated: every run of main ends with the final summary.
C29_Original == (run = 1) ~> SummaryLogged

\* C29: a run of main for which the repository directory returned at least
\* one repository visits every (organization, repository) pair exactly once,
\* organizations in configured order and repositories in directory order
\* within each, and then reaches the final summary, whatever records or
\* repositories failed on the way.
C29_SequentialRun ==
  /\ [](VisitedInOrder /\ (SummaryLogged => visited = AllPairs))
  /\ (pc = "main") ~> SummaryLogged

C29_Witness ==
  /\ SummaryLogged
  /\ visited = AllPairs
  /\ total_failed > 0
  /\ total_successful > 0
  /\ total_skipped > 0

\* the position in the log of the request op of run p (0: not sent)
Sent(p, op) ==
  IF \E k \in 1..Len(cc_log) : cc_log[k].p = p /\ cc_log[k].op = op
    THEN CHOOSE k \in 1..Len(cc_log) : cc_log[k].p = p /\ cc_log[k].op = op
    ELSE 0

Creations == {k \in 1..Len(cc_log) : cc_log[k].op = "create" /\ cc_log[k].res = "created"}

\* C30: concurrent runs are not safe.  Each run creates only after it listed
\* the record without marker label and after its duplicate search found no
\* target record, but the checks and the creation are separate requests: the
\* target holds as many records as there were creations, and nothing keeps
\* two runs from both passing the checks before either creates (the witness).
C30_ConcurrentRuns ==
  /\ Len(cc_jira) = Cardinality(Creations)
  /\ \A p \in Processes :
       cc_pc[p] \in {"create", "mark", "created", "failed"} =>
         /\ ~cc_listed[p]
         /\ Sent(p, "search") # 0
         /\ \/ cc_log[Sent(p, "search")].res = "non200"
            \/ \A k \in Creations : k > Sent(p, "search")

C30_Witness ==
  /\ cc_pc[1] = "created"
  /\ cc_pc[2] = "created"
  /\ Len(cc_jira) >= 2
  /\ cc_log[Sent(1, "search")].res = "ok"
  /\ cc_log[Sent(2, "search")].res = "ok"
  /\ cc_jira[1] = cc_jira[2]

\* C31: when import_to_jira returns, its three counters add up to the number
\* of records it was given: every record, a pull request included, was
\* counted as created, failed or skipped.
C31_OutcomeAccounting ==
  [][(pc = "import" /\ last'.step = "return") =>
       successful_imports + failed_imports + skipped_imports = Len(issues)]_vars

BulkRecord == variant = "bulk" /\ AtRecord

RecordDelays(eff) ==
  {i \in 1..Len(eff) : eff[i].op = "sleep" /\ (i = 1 \/ eff[i - 1].op # "jira_comment")}

DelayedOnce(eff) ==
  /\ RecordDelays(eff) = {Len(eff)}
  /\ eff[Len(eff)] = Sleep(RecordDelay)

\* C32 as stated: the 0.5 s delay is applied once after every record that is
\* handled, whether it was created, failed or skipped.
C32_Original ==
  [][(last'.step = "record" /\ last'.out \in {"created", "failed", "skipped"}) =>
       DelayedOnce(last'.eff)]_vars

\* C32 (amended): the 0.5 s delay is applied once, as the last thing of the
\* iteration, after every record whose creation request was answered (created
\* or failed); a record that is skipped for whatever reason, a pull request
\* and a record whose handling raises are followed by no delay.
C32_FixedDelay ==
  [][last'.step = "record" =>
       IF last'.out \in {"created", "failed"}
         THEN DelayedOnce(last'.eff)
         ELSE RecordDelays(last'.eff) = {}]_vars

C32_Witness ==
  /\ last.step = "record"
  /\ last.out = "created"
  /\ issues[1].comments = MaxComments
  /\ DelayedOnce(last.eff)
  /\ Cardinality({i \in 1..Len(last.eff) : last.eff[i].op = "sleep"}) = MaxComments + 1

\* the place of a request in the order of an iteration; the pauses have none
Rank ==
  [search |-> 0, gitea |-> 0, create |-> 1, get_comments |-> 2, jira_comment |-> 3,
   gh_comment |-> 4, label |-> 5]

Requests(eff) == {i \in 1..Len(eff) : eff[i].op # "sleep"}

InOrder(eff) ==
  /\ \A i, j \in Requests(eff) :
       i < j => /\ Rank[eff[i].op] <= Rank[eff[j].op]
                /\ (eff[i].op = "jira_comment" /\ eff[j].op = "jira_comment") =>
                     eff[j].arg > eff[i].arg
                /\ eff[i].op = eff[j].op => eff[i].op \in {"jira_comment"}
  /\ \A i \in Requests(eff) :
       eff[i].op \in {"get_comments", "jira_comment", "gh_comment", "label"} =>
         \E c \in Created(eff) : c < i

\* C33: for a record that is created the creation request comes first, then
\* the source comments are copied to the target one by one in source order,
\* then the provenance comment is posted on the source record, and the marker
\* label is applied last; no comment or label request for the record is sent
\* before the target answered the creation with success.
C33_OrderOfEffects ==
  [][(last'.step = "record" /\ Created(last'.eff) # {}) => InOrder(last'.eff)]_vars

C33_Witness ==
  /\ last.step = "record"
  /\ last.out = "created"
  /\ issues[1].comments = MaxComments
  /\ [i \in 1..Len(last.eff) |-> last.eff[i].op] =
       <<"search", "gitea", "create", "get_comments", "jira_comment", "sleep",
         "jira_comment", "sleep", "gh_comment", "label", "sleep">>

\* the comments an iteration submitted to the target, in the order it did
Submitted(eff) ==
  LET at == {i \in 1..Len(eff) : eff[i].op = "jira_comment"} IN
  [k \in 1..Cardinality(at) |->
     eff[CHOOSE i \in at : Cardinality({j \in at : j <= i}) = k].arg]

\* C34: after a record is created, every comment of the source record has
\* been submitted to the new target record, exactly once and in source order.
C34_CommentBackfill ==
  [][(last'.step = "record" /\ last'.out = "created") =>
       Submitted(last'.eff) = [k \in 1..issues[ii].comments |-> k]]_vars

\* C35: in every reachable state a source record on which the pipeline put
\* the marker label has a target record.
C35_LabelledHasTarget ==
  \A t \in gh_labels : \E k \in 1..Len(jira) : jira[k].src = <<t[1], t[2], t[3]>>

\* C38: the imported count of the final summary is the number of target
\* records created during the run, also when an exception interrupted the
\* processing of a repository.
C38_SummaryCounts ==
  (pc = "done" /\ last.out = "summary") => total_successful = Len(jira)

\* C39: the duplicate detector never conflates distinct source records: a
\* record is skipped as existing in the target only if the target holds a
\* record that was imported from it.
C39_NoConflation ==
  [][(last'.step = "record" /\ last'.why = "already-exists") =>
       \E k \in 1..Len(jira) : jira[k].src = last'.id]_vars

\* C36: within one run the creation request of a source record reaches the
\* target system at most once, whatever the target answers.
C36_CreateSentOnce == rt_call = "create_issue" => Len(rt_attempts) <= 1

LastStatus == rt_attempts[Len(rt_attempts)]

\* C37 as stated: a duplicate search that the target answers with a status
\* other than 200 is treated as "not found": check_issue_exists returns false
\* and the pipeline goes on with the unlabelled record.
C37_Original ==
  [][(last'.step = "record" /\ LastStatus # 200) =>
       /\ last'.eff[1].op = "search" /\ last'.eff[1].res = "non200"
       /\ last'.why # "already-exists"]_vars

\* C37 (amended): a duplicate search whose last answer has a status other
\* than 200 that the session does not retry (400, 403, 404, 422, ...) is
\* treated as "not found": the record is never skipped as existing, also when
\* the target holds it, and the pipeline goes on to the template gate and,
\* for a record with the template, to the creation request.  When every one
\* of the four attempts ends in 429, 500, 502, 503, 504 or a connection
\* failure the session raises instead: the exception leaves import_to_jira
\* with the record neither created, skipped nor failed.
C37_FailedSearch ==
  [][(last'.step = "record" /\ LastStatus # 200) =>
       IF LastStatus \in {ConnectionFailure, 429, 500, 502, 503, 504}
         THEN /\ Len(rt_attempts) = RetryTotal + 1
              /\ last'.out = "raised"
              /\ Ops(last'.eff) = {"search"}
              /\ pc' = "main"
              /\ jira' = jira /\ gh_labels' = gh_labels
         ELSE /\ last'.eff[1].op = "search" /\ last'.eff[1].res = "non200"
              /\ last'.why # "already-exists"
              /\ "label" \in Ops(last'.eff) => "create" \in Ops(last'.eff)
              /\ IF TemplateGate(variant, issues[ii])
                   THEN last'.out = "skipped" /\ last'.why = "no-template"
                   ELSE \/ "create" \in Ops(last'.eff)
                        \/ last'.why \in {"config", "resolver"}]_vars

C37_Witness ==
  /\ last.step = "record"
  /\ rt_attempts = <<503, 404>>
  /\ last.out = "created"
  /\ jira = <<Imported(variant), Imported(variant)>>

====
